---- MODULE Spec2Model ----
(***************************************************************************)
(* A model of mongothon: the change-tracking Document (document.py), the   *)
(* Schema validation / defaulting engine (schema.py), the Model and its    *)
(* lifecycle (model.py), the handler registrar (events.py) and the query   *)
(* scopes (queries.py).                                                    *)
(*                                                                         *)
(* Python values are records tagged by `kind`:                             *)
(*   none, int, str, float,  scalars                                       *)
(*   oid                                                                   *)
(*   dict, list              plain (raw) containers                        *)
(*   doc, doclist            Document / DocumentList; a doc carries the    *)
(*                           state of the ChangeTracker it owns            *)
(*   ref                     the address of an object of `heap`            *)
(* Objects are modelled by value, except under SpecSeed, where mappings    *)
(* and lists are objects of `heap` and values hold references to them.     *)
(* Dicts are iterated in the order of KeySeq (Python 2 iterates a dict in  *)
(* an arbitrary but fixed order).                                          *)
(***************************************************************************)
EXTENDS Integers, Sequences, FiniteSets, TLC

VARIABLES
    doc,        \* the Document under observation
    baseline,   \* its content at construction or at the last reset_changes
    lastop,     \* the last operation applied to doc
    sch,        \* the schema in use: an index into Schemas, or the schema being verified
    inst,       \* the instance handed to Schema.validate / Schema.apply_defaults
    now,        \* the value the next call of a callable default returns
    passes,     \* number of apply_defaults passes made over inst
    out,        \* outcome of the last Schema operation
    state,      \* lifecycle state of the Model whose content is doc
    saved,      \* content of the document last handed to collection.save, None before
    trace,      \* the handlers and steps the last operation on the Model ran, in order
    heap,       \* the objects of the store, by address, where identity matters
    handler_dict, \* EventHandlerRegistrar._handler_dict of the model class
    scopes,     \* the scope list of each model class that has one
    methods,    \* the scope methods set on the ScopeBuilder class, by name
    builders    \* the ScopeBuilders the caller holds

----------------------------------------------------------------------------
(* Bounds *)

\* number of distinct scalar payloads
MaxVal == 2

\* longest embedded collection of an instance
MaxLen == 2

\* the depth of nested calls at which the interpreter raises RuntimeError
\* (maximum recursion depth exceeded)
RecursionLimit == 4

\* number of apply_defaults passes made over one instance
MaxPasses == 2

----------------------------------------------------------------------------
(* Python values *)

None == [kind |-> "none"]
PyInt(n) == [kind |-> "int", v |-> n]
PyStr(n) == [kind |-> "str", v |-> n]
\* the float n + 0.5
PyFloat(n) == [kind |-> "float", v |-> n]
PyOid(n) == [kind |-> "oid", v |-> n]
PyDict(f) == [kind |-> "dict", items |-> f]
PyList(s) == [kind |-> "list", items |-> s]

EmptyMap == [k \in {} |-> None]

\* the field names used, in dict iteration order
KeySeq ==
    <<"_id", "wheels", "engine", "doors", "position", "size", "a", "b", "contains space", "">>

\* the field names the Document state machine assigns and deletes
Keys == {"a", "b"}

Put(f, k, v) == [x \in (DOMAIN f) \cup {k} |-> IF x = k THEN v ELSE f[x]]
Drop(f, k) == [x \in (DOMAIN f) \ {k} |-> f[x]]

InSeq(x, s) == \E i \in DOMAIN s : s[i] = x

\* list.remove(x): removes the first occurrence
RemoveFirst(s, x) ==
    LET i == CHOOSE j \in DOMAIN s : s[j] = x /\ \A h \in 1..(j - 1) : s[h] # x
    IN  SubSeq(s, 1, i - 1) \o SubSeq(s, i + 1, Len(s))

----------------------------------------------------------------------------
(* ChangeTracker *)

ChangeTracker == [added |-> <<>>, previous |-> EmptyMap, deleted |-> EmptyMap]

DocumentList(s) == [kind |-> "doclist", items |-> s]

IsDocument(v) == v.kind = "doc"
IsDocumentList(v) == v.kind = "doclist"

\* Python ==: Document and DocumentList inherit dict and list equality, which
\* compares content only, at every depth
PyEq(x, y) ==
    LET RECURSIVE content(_)
        content(v) ==
            IF v.kind \in {"doc", "dict"}
            THEN PyDict([k \in DOMAIN v.items |-> content(v.items[k])])
            ELSE IF v.kind \in {"doclist", "list"}
            THEN PyList([i \in DOMAIN v.items |-> content(v.items[i])])
            ELSE v
    IN  content(x) = content(y)

\* variant: the values held are returned as they are
unwrap_shallow(value) ==
    IF IsDocument(value) THEN PyDict(value.items)
    ELSE IF IsDocumentList(value) THEN PyList(value.items)
    ELSE value

RECURSIVE unwrap(_), to_dict(_), to_list(_)

unwrap(value) ==
    IF IsDocument(value) THEN to_dict(value)
    ELSE IF IsDocumentList(value) THEN to_list(value)
    ELSE value

\* {key: unwrap(value) for key, value in self.iteritems()}
to_dict(d) == PyDict([k \in DOMAIN d.items |-> unwrap(d.items[k])])

\* [unwrap(value) for value in self]
to_list(l) == PyList([i \in DOMAIN l.items |-> unwrap(l.items[i])])

\* variant: only the record of changed fields is cleared
ResetTracker_previous_only(d) == [d EXCEPT !.tracker.previous = EmptyMap]

ResetTracker(d) == [d EXCEPT !.tracker = ChangeTracker]

\* variant: the state of other is added to the state the receiver holds
TrackerUpdate_merges(d, other) ==
    LET t0 == d.tracker
    IN  [d EXCEPT !.tracker =
            [added |-> t0.added \o other.tracker.added,
             previous |-> other.tracker.previous @@ t0.previous,
             deleted |-> other.tracker.deleted @@ t0.deleted]]

TrackerUpdate(d, other) ==
    LET t0 == ChangeTracker
    IN  [d EXCEPT !.tracker =
            [added |-> t0.added \o other.tracker.added,
             previous |-> other.tracker.previous @@ t0.previous,
             deleted |-> other.tracker.deleted @@ t0.deleted]]

\* variant: every assignment records the value it replaces
note_change_overwrites(d, key, value) ==
    LET t == d.tracker
        p1 == IF ~PyEq(value, d.items[key]) /\ ~InSeq(key, t.added)
              THEN Put(t.previous, key, d.items[key])
              ELSE t.previous
        p2 == IF key \in DOMAIN p1 /\ PyEq(value, p1[key])
              THEN Drop(p1, key)
              ELSE p1
    IN  [t EXCEPT !.previous = p2]

\* variant: a change of an added key is recorded like any other change
note_change_ignores_added(d, key, value) ==
    LET t == d.tracker
        p1 == IF ~PyEq(value, d.items[key]) /\ key \notin DOMAIN t.previous
              THEN Put(t.previous, key, d.items[key])
              ELSE t.previous
        p2 == IF key \in DOMAIN p1 /\ PyEq(value, p1[key])
              THEN Drop(p1, key)
              ELSE p1
    IN  [t EXCEPT !.previous = p2]

note_change(d, key, value) ==
    LET t == d.tracker
        p1 == IF /\ ~PyEq(value, d.items[key])
                 /\ key \notin DOMAIN t.previous
                 /\ ~InSeq(key, t.added)
              THEN Put(t.previous, key, d.items[key])
              ELSE t.previous
        p2 == IF key \in DOMAIN p1 /\ PyEq(value, p1[key])
              THEN Drop(p1, key)
              ELSE p1
    IN  [t EXCEPT !.previous = p2]

\* variant: a key that was deleted is re-added without comparing its value
note_addition_forgets(d, key, value) ==
    LET t == d.tracker
    IN  IF key \in DOMAIN t.deleted
        THEN [t EXCEPT !.deleted = Drop(t.deleted, key)]
        ELSE [t EXCEPT !.added = Append(t.added, key)]

note_addition(d, key, value) ==
    LET t == d.tracker
    IN  IF key \in DOMAIN t.deleted
        THEN [t EXCEPT
                !.previous = IF ~PyEq(value, t.deleted[key])
                             THEN Put(t.previous, key, t.deleted[key])
                             ELSE t.previous,
                !.deleted = Drop(t.deleted, key)]
        ELSE [t EXCEPT !.added = Append(t.added, key)]

\* variant: the deletion always records the value held just before it
note_deletion_current(d, key) ==
    LET t == d.tracker
    IN  IF InSeq(key, t.added)
        THEN [t EXCEPT !.added = RemoveFirst(t.added, key)]
        ELSE [t EXCEPT !.deleted = Put(t.deleted, key, d.items[key]),
                       !.previous = Drop(t.previous, key)]

\* variant: the deletion of an added field is recorded like any other deletion
note_deletion_keeps_added(d, key) ==
    LET t == d.tracker
    IN  IF key \in DOMAIN t.previous
        THEN [t EXCEPT !.deleted = Put(t.deleted, key, t.previous[key]),
                       !.previous = Drop(t.previous, key)]
        ELSE [t EXCEPT !.deleted = Put(t.deleted, key, d.items[key])]

note_deletion(d, key) ==
    LET t == d.tracker
    IN  IF InSeq(key, t.added)
        THEN [t EXCEPT !.added = RemoveFirst(t.added, key)]
        ELSE IF key \in DOMAIN t.previous
        THEN [t EXCEPT !.deleted = Put(t.deleted, key, t.previous[key]),
                       !.previous = Drop(t.previous, key)]
        ELSE [t EXCEPT !.deleted = Put(t.deleted, key, d.items[key])]

\* the views
changed(d) == [k \in DOMAIN d.tracker.previous |-> d.items[k]]
changes(d) == [k \in DOMAIN d.tracker.previous |-> <<d.tracker.previous[k], d.items[k]>>]
added(d) == [k \in {d.tracker.added[i] : i \in DOMAIN d.tracker.added} |-> d.items[k]]
deleted(d) == d.tracker.deleted

----------------------------------------------------------------------------
(* Document and DocumentList *)

RECURSIVE wrap(_), setitem(_, _, _), updateFrom(_, _, _), Document(_)

setitem(d, key, value) ==
    [d EXCEPT
        !.tracker = IF key \in DOMAIN d.items
                    THEN note_change(d, key, value)
                    ELSE note_addition(d, key, value),
        !.items = Put(d.items, key, wrap(value))]

\* for key in other: self[key] = other[key], from the i-th key on
updateFrom(d, other, i) ==
    IF i > Len(KeySeq) THEN d
    ELSE IF KeySeq[i] \in DOMAIN other.items
    THEN updateFrom(setitem(d, KeySeq[i], other.items[KeySeq[i]]), other, i + 1)
    ELSE updateFrom(d, other, i + 1)

update(d, other) == updateFrom(d, other, 1)

Document(initial) ==
    ResetTracker(update([kind |-> "doc", items |-> EmptyMap, tracker |-> ChangeTracker],
                        initial))

\* variant: a Document is wrapped again, like a plain mapping
wrap_again(value) ==
    IF value.kind \in {"doc", "dict"} THEN Document(PyDict(value.items))
    ELSE IF value.kind \in {"doclist", "list"}
    THEN DocumentList([i \in DOMAIN value.items |-> wrap(value.items[i])])
    ELSE value

wrap(value) ==
    IF IsDocument(value) \/ IsDocumentList(value) THEN value
    ELSE IF value.kind = "dict" THEN Document(value)
    ELSE IF value.kind = "list"
    THEN DocumentList([i \in DOMAIN value.items |-> wrap(value.items[i])])
    ELSE value

delitem(d, key) ==
    [d EXCEPT !.tracker = note_deletion(d, key),
              !.items = Drop(d.items, key)]

\* dict.setdefault: stores the wrapped default when the key is missing, without
\* going through __setitem__
setdefault(d, key, default) ==
    IF key \in DOMAIN d.items THEN d
    ELSE [d EXCEPT !.items = Put(d.items, key, wrap(default))]

reset_changes(d) == ResetTracker(d)

\* DocumentList.__setitem__; `index` counts from 0
list_setitem(l, index, value) == [l EXCEPT !.items[index + 1] = wrap(value)]

\* DocumentList.__setslice__: l[i:j] = sequence, 0 <= i <= j <= len(l)
setslice(l, i, j, sequence) ==
    DocumentList(SubSeq(l.items, 1, i)
                 \o [n \in DOMAIN sequence |-> wrap(sequence[n])]
                 \o SubSeq(l.items, j + 1, Len(l.items)))

extend(l, other) == DocumentList(l.items \o [n \in DOMAIN other |-> wrap(other[n])])

append(l, item) == DocumentList(Append(l.items, wrap(item)))

\* list.insert puts the item before position i, at the end when i >= len(l)
insert(l, i, item) ==
    LET at == IF i > Len(l.items) THEN Len(l.items) ELSE i
    IN  DocumentList(SubSeq(l.items, 1, at) \o <<wrap(item)>>
                     \o SubSeq(l.items, at + 1, Len(l.items)))

\* DocumentList.remove(item): the first element equal to item goes
list_remove(l, item) ==
    LET first == CHOOSE i \in DOMAIN l.items :
                    /\ PyEq(l.items[i], item)
                    /\ \A j \in 1..(i - 1) : ~PyEq(l.items[j], item)
    IN  DocumentList([n \in 1..(Len(l.items) - 1) |->
                        IF n < first THEN l.items[n] ELSE l.items[n + 1]])

\* DocumentList.pop(): the last element goes
pop(l) == DocumentList(SubSeq(l.items, 1, Len(l.items) - 1))

\* variant: DocumentLists are not descended into
reset_all_changes_documents_only(v) ==
    IF IsDocument(v)
    THEN [ResetTracker(v) EXCEPT
            !.items = [k \in DOMAIN v.items |->
                          IF IsDocument(v.items[k]) THEN ResetTracker(v.items[k])
                          ELSE v.items[k]]]
    ELSE v

RECURSIVE reset_all_changes(_)
reset_all_changes(v) ==
    IF IsDocument(v)
    THEN [ResetTracker(v) EXCEPT
            !.items = [k \in DOMAIN v.items |-> reset_all_changes(v.items[k])]]
    ELSE IF IsDocumentList(v)
    THEN [v EXCEPT !.items = [i \in DOMAIN v.items |-> reset_all_changes(v.items[i])]]
    ELSE v

\* a reference to the object at an address of the heap
Ref(addr) == [kind |-> "ref", addr |-> addr]

\* variant: the values of the seed are stored as they are
heap_wrap_shallow(h, value, depth) ==
    [heap |-> Append(h, [kind |-> "doc", items |-> h[value.addr].items,
                         tracker |-> ChangeTracker]),
     value |-> Ref(Len(h) + 1), raised |-> FALSE]

RECURSIVE heap_wrap(_, _, _)

\* wrap(value) where the mappings and lists are objects of the heap h: a plain
\* mapping becomes a new Document (Document.__init__: update, reset_changes), a
\* plain list a new DocumentList (DocumentList.__init__: extend), each value
\* wrapped in turn; `depth` is the depth of the nested calls, and the call raises
\* when it passes RecursionLimit
heap_wrap(h, value, depth) ==
    LET Result(hp, v, r) == [heap |-> hp, value |-> v, raised |-> r]
        n == Len(h) + 1
        RECURSIVE fill(_, _)
        \* self[key] = initial[key] for the keys, or the elements, from the i-th on
        fill(r, i) ==
            LET seed == h[value.addr]
                last == IF seed.kind = "dict" THEN Len(KeySeq) ELSE Len(seed.items)
            IN  IF r.raised \/ i > last THEN r
                ELSE IF seed.kind = "dict" /\ KeySeq[i] \notin DOMAIN seed.items
                THEN fill(r, i + 1)
                ELSE LET key == IF seed.kind = "dict" THEN KeySeq[i] ELSE i
                         w == heap_wrap(r.heap, seed.items[key], depth + 1)
                     IN  IF w.raised THEN Result(w.heap, value, TRUE)
                         ELSE fill(Result([w.heap EXCEPT ![n] =
                                              IF seed.kind = "dict"
                                              THEN setitem(@, key, w.value)
                                              ELSE append(@, w.value)],
                                          Ref(n), FALSE),
                                   i + 1)
    IN  IF value.kind # "ref" THEN Result(h, value, FALSE)
        ELSE IF h[value.addr].kind \in {"doc", "doclist"} THEN Result(h, value, FALSE)
        ELSE IF depth > RecursionLimit THEN Result(h, value, TRUE)
        ELSE IF h[value.addr].kind = "dict"
        THEN LET r == fill(Result(Append(h, [kind |-> "doc", items |-> EmptyMap,
                                             tracker |-> ChangeTracker]),
                                  Ref(n), FALSE), 1)
             IN  IF r.raised THEN r
                 ELSE Result([r.heap EXCEPT ![n] = reset_changes(@)], Ref(n), FALSE)
        ELSE fill(Result(Append(h, DocumentList(<<>>)), Ref(n), FALSE), 1)

RECURSIVE Deref(_, _, _)

\* the value a reference stands for, the objects held in it included, followed
\* through at most `fuel` references
Deref(h, value, fuel) ==
    IF value.kind # "ref" \/ fuel = 0 THEN value
    ELSE [h[value.addr] EXCEPT
            !.items = [k \in DOMAIN h[value.addr].items |->
                          Deref(h, h[value.addr].items[k], fuel - 1)]]

\* variant: the content is merged in and the changes stay recorded
populate_merges(d, other) == update(d, other)

\* dict.clear() followed by update and reset_all_changes
populate(d, other) ==
    reset_all_changes(update([d EXCEPT !.items = EmptyMap], other))

----------------------------------------------------------------------------
(* Schema *)

\* a type used in a field spec; a nested Schema is a type too
Type(name) == [kind |-> "type", name |-> name]

\* Mixed(*types): a type whose instances are the instances of the enclosed types
Mixed(types) == [kind |-> "type", name |-> "Mixed", types |-> types]

IsSchema(t) == t.kind = "schema"

\* {"type": t, ...}: `keys` are the keys the spec mapping has, `required` the
\* truth value of spec['required'] and `required_kind` the type of that value
FieldSpec(keys, t, required, default, validates) ==
    [kind |-> "dict", keys |-> keys, type |-> t, required |-> required,
     required_kind |-> "bool", default |-> default, validates |-> validates]

\* [t, ...]: an embedded collection
ListSpec(ts) == [kind |-> "list", items |-> ts]

\* a default: a literal value, or a callable that returns the current clock value
Literal(v) == [callable |-> FALSE, value |-> v]
Callable == [callable |-> TRUE, value |-> None]

\* a validator of validators.py
gte(min_value) == [name |-> "gte", arg |-> min_value]

\* validate(value) of a validator: its message, or "" when it returns None
\* (Python 2 orders every number before every value that is not a number)
RunValidator(fn, value) ==
    IF fn.name = "gte" /\ value.kind \in {"int", "float"} /\ value.v < fn.arg
    THEN ToString(value.v) \o (IF value.kind = "float" THEN ".5" ELSE "")
         \o " is less than the minimum value of " \o ToString(fn.arg)
    ELSE ""

\* Schema.__init__: every schema expects an _id field
Schema(doc_spec, strict) ==
    [kind |-> "schema",
     doc_spec |-> IF "_id" \in DOMAIN doc_spec
                  THEN doc_spec
                  ELSE Put(doc_spec, "_id", FieldSpec({"type"}, Type("ObjectId"), FALSE, None, <<>>)),
     strict |-> strict]

IsDict(v) == v.kind \in {"dict", "doc"}
IsList(v) == v.kind \in {"list", "doclist"}

\* isinstance(value, <the builtin or bson type of that name>)
InstanceOf(value, name) ==
    CASE name = "int" -> value.kind = "int"
      [] name = "float" -> value.kind = "float"
      [] name = "str" -> value.kind = "str"
      [] name = "ObjectId" -> value.kind = "oid"
      [] name = "dict" -> IsDict(value)
      [] name = "list" -> IsList(value)
      [] OTHER -> FALSE

\* MixedType.__instancecheck__ for a Mixed type
isinstance(value, t) ==
    IF t.name = "Mixed"
    THEN \E mtype \in t.types : InstanceOf(value, mtype)
    ELSE InstanceOf(value, t.name)

\* "{0}".format(field_type)
TypeRepr(t) ==
    IF t.name = "Mixed" THEN "<class 'mongothon.schema.Mixed'>"
    ELSE "<type '" \o t.name \o "'>"

\* variant: the prefix of the enclosing sub-document is dropped
append_path_field_only(prefix, field) == field

append_path(prefix, field) ==
    IF prefix # "" THEN prefix \o "." \o field ELSE field

\* variant: a field the instance does not have is not given the value None
Get_missing(instance, field) ==
    IF field \in DOMAIN instance.items THEN instance.items[field] ELSE [kind |-> "absent"]

\* instance.get(field, None)
Get(instance, field) ==
    IF field \in DOMAIN instance.items THEN instance.items[field] ELSE None

RECURSIVE ApplyValidators(_, _, _, _, _)
ApplyValidators(fns, i, value, path, errors) ==
    IF i > Len(fns) THEN errors
    ELSE LET error == RunValidator(fns[i], value)
         IN  ApplyValidators(fns, i + 1, value, path,
                             IF error # "" THEN Put(errors, path, error) ELSE errors)

RECURSIVE validate_instance_against_schema(_, _, _, _, _),
          ValidateFields(_, _, _, _, _, _),
          ValidateFieldsFailFast(_, _, _, _, _, _),
          ValidateItems(_, _, _, _, _, _),
          validate_value(_, _, _, _, _),
          validate_value_unchecked(_, _, _, _, _),
          validate_instance_lenient(_, _, _, _, _)

\* variant: the validators are applied whatever the type of the value
validate_value_unchecked(self, value, field_spec, path, errors) ==
    IF value = None
    THEN IF "required" \in field_spec.keys /\ field_spec.required
         THEN Put(errors, path, path \o " is required.")
         ELSE errors
    ELSE IF IsSchema(field_spec.type)
    THEN IF IsDict(value)
         THEN validate_instance_against_schema(self, value, field_spec.type, errors, path)
         ELSE Put(errors, path, path \o " should be an embedded document")
    ELSE LET typed == IF ~isinstance(value, field_spec.type)
                      THEN Put(errors, path,
                               "Field should be of type " \o TypeRepr(field_spec.type))
                      ELSE errors
         IN  IF "validates" \notin field_spec.keys
             THEN typed
             ELSE ApplyValidators(field_spec.validates, 1, value, path, typed)

\* self is the schema validate was called on
validate_value(self, value, field_spec, path, errors) ==
    IF value = None
    THEN IF "required" \in field_spec.keys /\ field_spec.required
         THEN Put(errors, path, path \o " is required.")
         ELSE errors
    ELSE IF IsSchema(field_spec.type)
    THEN IF IsDict(value)
         THEN validate_instance_against_schema(self, value, field_spec.type, errors, path)
         ELSE Put(errors, path, path \o " should be an embedded document")
    ELSE IF ~isinstance(value, field_spec.type)
    THEN Put(errors, path, "Field should be of type " \o TypeRepr(field_spec.type))
    ELSE IF "validates" \notin field_spec.keys
    THEN errors
    ELSE ApplyValidators(field_spec.validates, 1, value, path, errors)

\* for i, item in enumerate(value), from the j-th item on
ValidateItems(self, value, t, path, errors, j) ==
    IF j > Len(value.items) THEN errors
    ELSE LET instance_path == path \o "." \o ToString(j - 1)
             item == value.items[j]
             errors2 == IF IsSchema(t)
                        THEN validate_instance_against_schema(self, item, t, errors,
                                                              instance_path)
                        ELSE IF ~isinstance(item, t)
                        THEN Put(errors, instance_path, "List item is of incorrect type")
                        ELSE errors
         IN  ValidateItems(self, value, t, path, errors2, j + 1)

\* variant: the loop over the declared fields stops at the first error
ValidateFieldsFailFast(self, instance, schema, path_prefix, errors, i) ==
    IF i > Len(KeySeq) \/ DOMAIN errors # {} THEN errors
    ELSE IF KeySeq[i] \notin DOMAIN schema.doc_spec
    THEN ValidateFieldsFailFast(self, instance, schema, path_prefix, errors, i + 1)
    ELSE LET field == KeySeq[i]
             spec == schema.doc_spec[field]
             value == Get(instance, field)
             path == append_path(path_prefix, field)
             errors2 ==
                IF spec.kind = "dict"
                THEN validate_value(self, value, spec, path, errors)
                ELSE IF value = None THEN errors
                ELSE IF ~IsList(value) THEN Put(errors, path, "Expected a list.")
                ELSE ValidateItems(self, value, spec.items[1], path, errors, 1)
         IN  ValidateFieldsFailFast(self, instance, schema, path_prefix, errors2, i + 1)

\* for field, spec in schema.doc_spec.iteritems(), from the i-th key on
ValidateFields(self, instance, schema, path_prefix, errors, i) ==
    IF i > Len(KeySeq) THEN errors
    ELSE IF KeySeq[i] \notin DOMAIN schema.doc_spec
    THEN ValidateFields(self, instance, schema, path_prefix, errors, i + 1)
    ELSE LET field == KeySeq[i]
             spec == schema.doc_spec[field]
             value == Get(instance, field)
             path == append_path(path_prefix, field)
             errors2 ==
                IF spec.kind = "dict"
                THEN validate_value(self, value, spec, path, errors)
                ELSE IF value = None THEN errors
                ELSE IF ~IsList(value) THEN Put(errors, path, "Expected a list.")
                ELSE ValidateItems(self, value, spec.items[1], path, errors, 1)
         IN  ValidateFields(self, instance, schema, path_prefix, errors2, i + 1)

\* variant: undeclared fields are never reported
validate_instance_lenient(self, instance, schema, errors, path_prefix) ==
    IF ~IsDict(instance)
    THEN Put(errors, path_prefix, "Expected instance of dict to validate against schema.")
    ELSE ValidateFields(self, instance, schema, path_prefix, errors, 1)

\* variant: undeclared fields are handled as the schema that declares the
\* (sub-)document says
validate_instance_own_strict(self, instance, schema, errors, path_prefix) ==
    IF ~IsDict(instance)
    THEN Put(errors, path_prefix, "Expected instance of dict to validate against schema.")
    ELSE LET declared == ValidateFields(self, instance, schema, path_prefix, errors, 1)
             unexpected == {f \in DOMAIN instance.items : f \notin DOMAIN schema.doc_spec}
         IN  IF schema.strict
             THEN [p \in DOMAIN declared \cup {append_path(path_prefix, f) : f \in unexpected} |->
                     IF \E f \in unexpected : p = append_path(path_prefix, f)
                     THEN "Unexpected document field not present in schema"
                     ELSE declared[p]]
             ELSE declared

validate_instance_against_schema(self, instance, schema, errors, path_prefix) ==
    IF ~IsDict(instance)
    THEN Put(errors, path_prefix, "Expected instance of dict to validate against schema.")
    ELSE LET declared == ValidateFields(self, instance, schema, path_prefix, errors, 1)
             unexpected == {f \in DOMAIN instance.items : f \notin DOMAIN schema.doc_spec}
         IN  IF self.strict
             THEN [p \in DOMAIN declared \cup {append_path(path_prefix, f) : f \in unexpected} |->
                     IF \E f \in unexpected : p = append_path(path_prefix, f)
                     THEN "Unexpected document field not present in schema"
                     ELSE declared[p]]
             ELSE declared

\* the outcome of a verification: nothing, or SchemaFormatException(message, path)
Verified == [raised |-> FALSE, path |-> "", message |-> ""]
SchemaFormatException(message, path) == [raised |-> TRUE, path |-> path, message |-> message]

verify_validator(validator, path) ==
    IF validator.name = "str"
    THEN SchemaFormatException("Invalid validations for " \o path, path)
    ELSE IF validator.name = "bad_validator"
    THEN SchemaFormatException("Invalid validations for " \o path, path)
    ELSE Verified

RECURSIVE VerifyValidators(_, _, _)

\* for validator in validates: self._verify_validator(validator, path)
VerifyValidators(validates, i, path) ==
    IF i > Len(validates) THEN Verified
    ELSE LET r == verify_validator(validates[i], path)
         IN  IF r.raised THEN r ELSE VerifyValidators(validates, i + 1, path)

RECURSIVE verify_schema(_, _), VerifyFields(_, _, _), verify_field_spec(_, _),
          verify_field_spec_any_keys(_, _)

\* variant: the keys of a field spec are not checked
verify_field_spec_any_keys(spec, path) ==
    IF "required" \in spec.keys /\ spec.required_kind # "bool"
    THEN SchemaFormatException(path \o " required declaration should be True or False", path)
    ELSE IF "type" \notin spec.keys
    THEN SchemaFormatException(path \o " has no type declared.", path)
    ELSE IF IsSchema(spec.type)
    THEN verify_schema(spec.type, path)
    ELSE LET v == IF "validates" \in spec.keys
                  THEN VerifyValidators(spec.validates, 1, path)
                  ELSE Verified
         IN  IF v.raised THEN v
             ELSE IF /\ "default" \in spec.keys
                     /\ ~(isinstance(spec.default.value, spec.type) \/ spec.default.callable)
             THEN SchemaFormatException("Default value for " \o path
                                        \o " is not of the nominated type.", path)
             ELSE Verified

\* (the message of an unsupported item ends with the repr of the spec's keys,
\* which is left out)
verify_field_spec(spec, path) ==
    IF "required" \in spec.keys /\ spec.required_kind # "bool"
    THEN SchemaFormatException(path \o " required declaration should be True or False", path)
    ELSE IF "type" \notin spec.keys
    THEN SchemaFormatException(path \o " has no type declared.", path)
    ELSE IF IsSchema(spec.type)
    THEN IF ~(spec.keys \subseteq {"type", "required"})
         THEN SchemaFormatException("Unsupported field spec item at " \o path \o ".", path)
         ELSE verify_schema(spec.type, path)
    ELSE LET v == IF "validates" \in spec.keys
                  THEN VerifyValidators(spec.validates, 1, path)
                  ELSE Verified
         IN  IF v.raised THEN v
             ELSE IF /\ "default" \in spec.keys
                     /\ ~(isinstance(spec.default.value, spec.type) \/ spec.default.callable)
             THEN SchemaFormatException("Default value for " \o path
                                        \o " is not of the nominated type.", path)
             ELSE IF ~(spec.keys \subseteq {"type", "required", "validates", "default"})
             THEN SchemaFormatException("Unsupported field spec item at " \o path \o ".", path)
             ELSE Verified

\* for field, spec in schema.doc_spec.iteritems(), from the i-th key on
VerifyFields(schema, path_prefix, i) ==
    IF i > Len(KeySeq) THEN Verified
    ELSE IF KeySeq[i] \notin DOMAIN schema.doc_spec
    THEN VerifyFields(schema, path_prefix, i + 1)
    ELSE LET field == KeySeq[i]
             spec == schema.doc_spec[field]
             path == append_path(path_prefix, field)
             r == IF spec.kind = "dict" THEN verify_field_spec(spec, path)
                  ELSE IF spec.kind = "list"
                  THEN IF Len(spec.items) = 0 \/ Len(spec.items) > 1
                       THEN SchemaFormatException(
                                "Exactly one type must be declared for the embedded collection at "
                                \o path, path)
                       ELSE IF IsSchema(spec.items[1])
                       THEN verify_schema(spec.items[1], path)
                       ELSE Verified
                  ELSE SchemaFormatException("Invalid field definition for " \o path, path)
         IN  IF r.raised THEN r ELSE VerifyFields(schema, path_prefix, i + 1)

verify_schema(schema, path_prefix) == VerifyFields(schema, path_prefix, 1)

\* Schema.verify
verify(self) == verify_schema(self, "")

\* Schema.validate: the error map, and whether ValidationException(errors) is raised
validate(self, instance) ==
    LET errors == validate_instance_against_schema(self, instance, self, EmptyMap, "")
    IN  [errors |-> errors, raised |-> Cardinality(DOMAIN errors) > 0]

\* the outcome of a defaulting pass: the instance as it was left, whether the pass
\* raised, and the clock the callable defaults read
Applied(instance, raised, clock) == [inst |-> instance, raised |-> raised, clock |-> clock]

\* `field in instance` raises TypeError unless the instance is a container or a string
SupportsIn(instance) == instance.kind \in {"dict", "doc", "list", "doclist", "str"}

\* variant: no field counts as set
Contains_unset(instance, field) == FALSE

\* `field in instance`: a key of a mapping; the lists and strings of the model
\* hold no field name
Contains(instance, field) == IsDict(instance) /\ field \in DOMAIN instance.items

\* instance[field] = value: tracked on a Document, plain on a dict
AssignField(instance, field, value) ==
    IF IsDocument(instance) THEN setitem(instance, field, value)
    ELSE [instance EXCEPT !.items = Put(instance.items, field, value)]

RECURSIVE apply_schema_defaults(_, _, _), ApplyFields(_, _, _, _), ApplyItems(_, _, _, _)

\* variant: every item is replaced by a fresh mapping holding the defaults
ApplyItemsFresh(schema, value, clock, j) ==
    Applied([value EXCEPT !.items =
                [i \in DOMAIN value.items |->
                    apply_schema_defaults(schema, PyDict(EmptyMap), clock).inst]],
            FALSE, clock)

\* for item in value: self._apply_schema_defaults(spec[0], item), from the j-th on
ApplyItems(schema, value, clock, j) ==
    IF j > Len(value.items) THEN Applied(value, FALSE, clock)
    ELSE LET r == apply_schema_defaults(schema, value.items[j], clock)
             value2 == [value EXCEPT !.items[j] = r.inst]
         IN  IF r.raised THEN Applied(value2, TRUE, r.clock)
             ELSE ApplyItems(schema, value2, r.clock, j + 1)

\* for field, spec in schema.doc_spec.iteritems(), from the i-th key on
ApplyFields(schema, instance, clock, i) ==
    IF i > Len(KeySeq) THEN Applied(instance, FALSE, clock)
    ELSE IF KeySeq[i] \notin DOMAIN schema.doc_spec
    THEN ApplyFields(schema, instance, clock, i + 1)
    ELSE LET field == KeySeq[i]
             spec == schema.doc_spec[field]
         IN  IF ~SupportsIn(instance) THEN Applied(instance, TRUE, clock)
             ELSE IF Contains(instance, field)
             THEN LET value == instance.items[field]
                      r == IF spec.kind = "list"
                           THEN IF IsList(value) /\ IsSchema(spec.items[1])
                                THEN ApplyItems(spec.items[1], value, clock, 1)
                                ELSE Applied(value, FALSE, clock)
                           ELSE IF IsSchema(spec.type) /\ IsDict(value)
                           THEN apply_schema_defaults(spec.type, value, clock)
                           ELSE Applied(value, FALSE, clock)
                      instance2 == [instance EXCEPT !.items[field] = r.inst]
                  IN  IF r.raised THEN Applied(instance2, TRUE, r.clock)
                      ELSE ApplyFields(schema, instance2, r.clock, i + 1)
             ELSE IF spec.kind = "dict" /\ "default" \in spec.keys
             THEN LET default == IF spec.default.callable
                                 THEN PyInt(clock)
                                 ELSE spec.default.value
                      clock2 == IF spec.default.callable THEN clock + 1 ELSE clock
                  IN  IF ~IsDict(instance) THEN Applied(instance, TRUE, clock2)
                      ELSE ApplyFields(schema, AssignField(instance, field, default),
                                       clock2, i + 1)
             ELSE ApplyFields(schema, instance, clock, i + 1)

apply_schema_defaults(schema, instance, clock) == ApplyFields(schema, instance, clock, 1)

\* Schema.apply_defaults
apply_defaults(self, instance, clock) == apply_schema_defaults(self, instance, clock)

----------------------------------------------------------------------------
(* Model *)

\* lifecycle states of a Model
Model_NEW == 1
Model_PERSISTED == 2
Model_DELETED == 3

\* variant: the clone is built from the content alone
deepcopy_untracked(v) == wrap(unwrap(v))

RECURSIVE deepcopy(_)

\* copy.deepcopy: Document.__deepcopy__ builds a new Document from the copied
\* content and gives it the tracker state of the original
deepcopy(v) ==
    IF IsDocument(v)
    THEN TrackerUpdate(Document(PyDict([k \in DOMAIN v.items |-> deepcopy(v.items[k])])), v)
    ELSE IF IsDocumentList(v)
    THEN DocumentList([i \in DOMAIN v.items |-> wrap(deepcopy(v.items[i]))])
    ELSE IF v.kind \in {"dict", "list"}
    THEN [v EXCEPT !.items = [k \in DOMAIN v.items |-> deepcopy(v.items[k])]]
    ELSE v

\* Model._create_working: a deep copy of the model with the defaults applied
create_working(self, schema, clock) == apply_defaults(schema, deepcopy(self), clock)

\* a handler or a step of the model and the document it is given
Call(name, document) == [name |-> name, document |-> document]

\* the handlers and steps of Model._create_working and Model._do_validate, in
\* order: constructing the clone emits did_init before the recorded changes are
\* copied to it; nothing follows a step that raises
do_validate_trace(self, w, v) ==
    <<Call("did_init", ResetTracker(deepcopy(self)))>>
    \o (IF w.raised THEN <<>>
        ELSE <<Call("will_validate", w.inst), Call("schema.validate", w.inst)>>
             \o (IF v.raised THEN <<>> ELSE <<Call("did_validate", w.inst)>>))

\* variant: the defaults are applied to, and the validation made on, the model
\* itself
model_validate_in_place(self, schema, clock) ==
    LET w == apply_defaults(schema, self, clock)
        v == validate(schema, w.inst)
    IN  [doc |-> w.inst, working |-> w.inst, raised |-> w.raised \/ v.raised,
         errors |-> IF w.raised THEN EmptyMap ELSE v.errors, clock |-> w.clock,
         trace |-> do_validate_trace(self, w, v)]

\* Model.validate: the model and the working copy when validate returns or
\* raises
model_validate(self, schema, clock) ==
    LET w == create_working(self, schema, clock)
        v == validate(schema, w.inst)
    IN  [doc |-> self, working |-> w.inst, raised |-> w.raised \/ v.raised,
         errors |-> IF w.raised THEN EmptyMap ELSE v.errors, clock |-> w.clock,
         trace |-> do_validate_trace(self, w, v)]

\* collection.save(working): the driver gives a document without _id the id
\* `assigned`
collection_save(working, assigned) ==
    IF "_id" \notin DOMAIN working.items
    THEN setitem(working, "_id", assigned)
    ELSE working

SaveResult(self, st, stored, clock, branch, calls) ==
    [doc |-> self, state |-> st, saved |-> stored, clock |-> clock, branch |-> branch,
     trace |-> calls]

\* the handlers and steps of Model.save that follow the validation, in order
save_trace(w, working, fails) ==
    <<Call("will_save", w.inst), Call("collection.save", w.inst)>>
    \o (IF fails THEN <<>>
        ELSE <<Call("did_save", working), Call("populate", working)>>)

\* variant: the model is repopulated from the working copy before the write
save_eager(self, st, stored, schema, clock, fails, assigned) ==
    LET w == create_working(self, schema, clock)
        v == validate(schema, w.inst)
        working == collection_save(w.inst, assigned)
        validated == do_validate_trace(self, w, v)
    IN  IF w.raised THEN SaveResult(self, st, stored, w.clock, "defaults_error", validated)
        ELSE IF v.raised
        THEN SaveResult(self, st, stored, w.clock, "validation_error", validated)
        ELSE IF fails
        THEN SaveResult(populate(self, w.inst), st, stored, w.clock, "collection_error",
                        validated \o save_trace(w, working, fails))
        ELSE SaveResult(populate(self, working), Model_PERSISTED, to_dict(working),
                        w.clock, "saved", validated \o save_trace(w, working, fails))

\* variant: the write is attempted whatever the validation found
save_unvalidated(self, st, stored, schema, clock, fails, assigned) ==
    LET w == create_working(self, schema, clock)
        v == validate(schema, w.inst)
        working == collection_save(w.inst, assigned)
        validated == do_validate_trace(self, w, v)
    IN  IF w.raised THEN SaveResult(self, st, stored, w.clock, "defaults_error", validated)
        ELSE IF fails
        THEN SaveResult(self, st, stored, w.clock, "collection_error",
                        validated \o save_trace(w, working, fails))
        ELSE SaveResult(populate(self, working), Model_PERSISTED, to_dict(working),
                        w.clock, IF v.raised THEN "validation_error" ELSE "saved",
                        validated \o save_trace(w, working, fails))

\* Model.save: the model, its state and the content of the stored document when
\* save returns or raises; `fails` says whether collection.save raises
save(self, st, stored, schema, clock, fails, assigned) ==
    LET w == create_working(self, schema, clock)
        v == validate(schema, w.inst)
        working == collection_save(w.inst, assigned)
        validated == do_validate_trace(self, w, v)
    IN  IF w.raised THEN SaveResult(self, st, stored, w.clock, "defaults_error", validated)
        ELSE IF v.raised
        THEN SaveResult(self, st, stored, w.clock, "validation_error", validated)
        ELSE IF fails
        THEN SaveResult(self, st, stored, w.clock, "collection_error",
                        validated \o save_trace(w, working, fails))
        ELSE SaveResult(populate(self, working), Model_PERSISTED, to_dict(working),
                        w.clock, "saved", validated \o save_trace(w, working, fails))

\* Model.is_new / is_persisted / is_deleted
is_new(st) == st = Model_NEW
is_persisted(st) == st = Model_PERSISTED
is_deleted(st) == st = Model_DELETED

\* Model.__init__: the model, its state and the events it emits
Model(initial_doc, initial_state) ==
    LET self == Document(initial_doc)
    IN  [doc |-> self, state |-> initial_state,
         trace |-> <<Call("did_init", self)>>
                   \o (IF initial_state = Model_PERSISTED
                       THEN <<Call("did_find", self)>> ELSE <<>>)]

\* Model.find_one, and the models find_by_id and a find cursor return: the
\* stored document `obj` becomes a PERSISTED model
find_one(obj) == Model(obj, Model_PERSISTED)

\* the stored document after collection.remove / collection.update by the _id
\* of self
StoredAfter(self, stored, new) ==
    IF stored # None /\ stored.items["_id"] = unwrap(self.items["_id"])
    THEN new ELSE stored

\* variant: the lifecycle state is not moved by remove
remove_keeps_state(self, st, stored, fails) ==
    IF "_id" \notin DOMAIN self.items
    THEN SaveResult(self, st, stored, 0, "key_error", <<Call("will_remove", self)>>)
    ELSE IF fails
    THEN SaveResult(self, st, stored, 0, "collection_error",
                    <<Call("will_remove", self), Call("collection.remove", self)>>)
    ELSE SaveResult(self, st, StoredAfter(self, stored, None), 0, "removed",
                    <<Call("will_remove", self), Call("collection.remove", self),
                      Call("did_remove", self)>>)

\* Model.remove: self['_id'] raises KeyError on a model without _id, and
\* `fails` says whether collection.remove raises
remove(self, st, stored, fails) ==
    IF "_id" \notin DOMAIN self.items
    THEN SaveResult(self, st, stored, 0, "key_error", <<Call("will_remove", self)>>)
    ELSE IF fails
    THEN SaveResult(self, st, stored, 0, "collection_error",
                    <<Call("will_remove", self), Call("collection.remove", self)>>)
    ELSE SaveResult(self, Model_DELETED, StoredAfter(self, stored, None), 0, "removed",
                    <<Call("will_remove", self), Call("collection.remove", self),
                      Call("did_remove", self)>>)

\* Model.update_instance: the stored document with the model's _id is given the
\* fields of `fields`; the model itself is not touched
update_instance(self, st, stored, fields, fails) ==
    IF "_id" \notin DOMAIN self.items
    THEN SaveResult(self, st, stored, 0, "key_error", <<Call("will_update", self)>>)
    ELSE IF fails
    THEN SaveResult(self, st, stored, 0, "collection_error",
                    <<Call("will_update", self), Call("collection.update", self)>>)
    ELSE SaveResult(self, st,
                    StoredAfter(self, stored,
                                IF stored = None THEN None
                                ELSE PyDict(fields @@ stored.items)),
                    0, "updated",
                    <<Call("will_update", self), Call("collection.update", self),
                      Call("did_update", self)>>)

\* Model.reload: the model is repopulated from the stored document with its
\* _id; populate(None) clears the model and adds nothing
reload(self, st, stored) ==
    IF "_id" \notin DOMAIN self.items
    THEN SaveResult(self, st, stored, 0, "key_error", <<Call("will_reload", self)>>)
    ELSE LET hit == stored # None /\ stored.items["_id"] = unwrap(self.items["_id"])
             reloaded == IF hit THEN populate(self, stored)
                         ELSE reset_all_changes([self EXCEPT !.items = EmptyMap])
         IN  SaveResult(reloaded, st, stored, 0, IF hit THEN "reloaded" ELSE "cleared",
                        <<Call("will_reload", self), Call("did_reload", reloaded)>>)

----------------------------------------------------------------------------
(* EventHandlerRegistrar *)

\* EventHandlerRegistrar.handlers
handlers(hd, event) == IF event \in DOMAIN hd THEN hd[event] ELSE <<>>

\* variant: the handler is appended whether or not it is already registered
register_again(hd, event, fn) == Put(hd, event, Append(handlers(hd, event), fn))

\* EventHandlerRegistrar.register
register(hd, event, fn) ==
    LET known == IF event \in DOMAIN hd THEN hd ELSE Put(hd, event, <<>>)
    IN  IF InSeq(fn, known[event])
        THEN known
        ELSE [known EXCEPT ![event] = Append(@, fn)]

\* EventHandlerRegistrar.deregister
deregister(hd, event, fn) ==
    IF event \in DOMAIN hd /\ InSeq(fn, hd[event])
    THEN [hd EXCEPT ![event] = RemoveFirst(@, fn)]
    ELSE hd

\* a call of the handler fn
Invocation(fn, document, args) == [name |-> fn, document |-> document, args |-> args]

\* the handler bodies of observers: no handler touches the registrar
Observers(fns) == [fn \in fns |-> "none"]

RECURSIVE apply_from(_, _, _, _, _, _, _)

\* for fn in self._handler_dict.get(event, []): fn(document, *args), from the
\* i-th position of the list on. The loop walks the registered list itself, by
\* position; does[fn] names the handler the body of fn deregisters from the
\* event, "none" when it deregisters nothing
apply_from(hd, event, document, args, does, i, calls) ==
    IF i > Len(handlers(hd, event))
    THEN [handler_dict |-> hd, calls |-> calls]
    ELSE LET fn == handlers(hd, event)[i]
         IN  apply_from(IF does[fn] = "none" THEN hd ELSE deregister(hd, event, does[fn]),
                        event, document, args, does, i + 1,
                        Append(calls, Invocation(fn, document, args)))

\* EventHandlerRegistrar.apply
apply(hd, event, document, args, does) ==
    apply_from(hd, event, document, args, does, 1, <<>>)

----------------------------------------------------------------------------
(* Query scopes: Model.scope and ScopeBuilder *)

\* a scope function: its __name__ and the module or model it was written for
ScopeFn(name, owner) == [name |-> name, owner |-> owner]

\* mongothon.scopes.STANDARD_SCOPES
STANDARD_SCOPES == <<ScopeFn("where", "mongothon")>>

\* Model.scope: the class gets its own scope list, a copy of the standard
\* scopes, on the first use; f is appended to it
scope(sc, cls, f) ==
    Put(sc, cls, Append(IF cls \in DOMAIN sc THEN sc[cls] ELSE STANDARD_SCOPES, f))

\* ScopeBuilder.register_fn: setattr(cls, f.__name__, inner), where cls is the
\* ScopeBuilder class and inner applies f
register_fn(ms, f) == Put(ms, f.name, f)

RECURSIVE RegisterAll(_, _, _)

\* for fn in fns: self.register_fn(fn), from the i-th function on
RegisterAll(ms, fns, i) ==
    IF i > Len(fns) THEN ms ELSE RegisterAll(register_fn(ms, fns[i]), fns, i + 1)

\* ScopeBuilder.__init__: the builder keeps the model and the scope list of
\* the model (the list itself, not a copy), and its query; the functions of
\* the list are registered on the class
ScopeBuilder(ms, sc, model, query) ==
    [methods |-> RegisterAll(ms, sc[model], 1),
     builder |-> [model |-> model, query |-> query]]

\* inner(self): the query of f is merged into a copy of the query of self and
\* a new builder is made of it; the query is modelled by the functions that
\* were merged into it, in order
inner(ms, sc, self, f) ==
    LET r == ScopeBuilder(ms, sc, self.model, Append(self.query, f))
    IN  [methods |-> r.methods, builder |-> r.builder, applied |-> f]

\* create_builder of Model.scope: a builder is made for the class and the
\* attribute named name is called on it
create_builder(ms, sc, cls, name) ==
    LET bldr == ScopeBuilder(ms, sc, cls, <<>>)
    IN  inner(bldr.methods, sc, bldr.builder, bldr.methods[name])

----------------------------------------------------------------------------
(* The Document state machine *)

Scalars == {PyInt(n) : n \in 1..MaxVal}

\* raw values a caller may assign
RawValues == Scalars \cup {PyDict("a" :> PyInt(1))}

\* raw mappings a caller may pass to the constructor, update or populate
RawDicts == UNION {[S -> Scalars] : S \in SUBSET Keys}

\* what the last operation was: its name, its key and the tracker branch taken
Op(name, key, branch) == [op |-> name, key |-> key, branch |-> branch]

\* the branch Document.__setitem__ / ChangeTracker.note_addition takes
SetBranch(d, k) ==
    IF k \in DOMAIN d.items
    THEN IF k \in DOMAIN d.tracker.previous THEN "rechange" ELSE "change"
    ELSE IF k \in DOMAIN d.tracker.deleted THEN "readd"
    ELSE "add"

\* the branch ChangeTracker.note_deletion takes
DelBranch(d, k) ==
    IF InSeq(k, d.tracker.added) THEN "added"
    ELSE IF k \in DOMAIN d.tracker.previous THEN "changed"
    ELSE "unchanged"

RECURSIVE DirtyDepth(_)

\* how deep below v the deepest Document with a non-empty tracker lies (v itself
\* at depth 1, every Document or DocumentList in between counted), 0 if none
DirtyDepth(v) ==
    IF IsDocument(v) \/ IsDocumentList(v)
    THEN LET below == {DirtyDepth(v.items[k]) : k \in DOMAIN v.items} \cup {0}
             m == CHOOSE x \in below : \A y \in below : y <= x
         IN  IF m > 0 THEN m + 1
             ELSE IF IsDocument(v) /\ v.tracker # ChangeTracker THEN 1
             ELSE 0
    ELSE 0

schemaVars == <<sch, inst, now, passes, out>>
docVars == <<doc, baseline, lastop>>
modelVars == <<state, saved, trace, heap>>
classVars == <<handler_dict, scopes, methods, builders>>

\* the classes as they are when the package is imported: no handler is
\* registered, no model class has a scope list, no scope method is set
ClassesAtImport ==
    /\ handler_dict = EmptyMap
    /\ scopes = EmptyMap
    /\ methods = EmptyMap
    /\ builders = <<>>

NoOutcome == [op |-> "none", raised |-> FALSE, errors |-> EmptyMap]

InitDocument ==
    /\ \E f \in RawDicts : doc = Document(PyDict(f))
    /\ baseline = doc.items
    /\ lastop = Op("init", "-", "-")
    /\ sch = 1
    /\ inst = None
    /\ now = 0
    /\ passes = 0
    /\ out = NoOutcome
    /\ state = Model_NEW
    /\ saved = None
    /\ trace = <<>>
    /\ heap = <<>>
    /\ ClassesAtImport

SetItem ==
    \E k \in Keys, v \in RawValues :
        /\ doc' = setitem(doc, k, v)
        /\ lastop' = Op("setitem", k, SetBranch(doc, k))
        /\ UNCHANGED <<baseline, schemaVars, modelVars, classVars>>

DelItem ==
    \E k \in DOMAIN doc.items :
        /\ doc' = delitem(doc, k)
        /\ lastop' = Op("delitem", k, DelBranch(doc, k))
        /\ UNCHANGED <<baseline, schemaVars, modelVars, classVars>>

Update ==
    \E f \in RawDicts :
        /\ doc' = update(doc, PyDict(f))
        /\ lastop' = Op("update", "-", "-")
        /\ UNCHANGED <<baseline, schemaVars, modelVars, classVars>>

SetDefault ==
    \E k \in Keys, v \in RawValues :
        /\ doc' = setdefault(doc, k, v)
        /\ lastop' = Op("setdefault", k, "-")
        /\ UNCHANGED <<baseline, schemaVars, modelVars, classVars>>

Populate ==
    \E f \in RawDicts :
        /\ doc' = populate(doc, PyDict(f))
        /\ baseline' = doc'.items
        /\ lastop' = Op("populate", "-", "-")
        /\ UNCHANGED <<schemaVars, modelVars, classVars>>

ResetChanges ==
    /\ doc' = reset_changes(doc)
    /\ baseline' = doc.items
    /\ lastop' = Op("reset_changes", "-", ToString(DirtyDepth(doc)))
    /\ UNCHANGED <<schemaVars, modelVars, classVars>>

ResetAllChanges ==
    /\ doc' = reset_all_changes(doc)
    /\ baseline' = doc'.items
    /\ lastop' = Op("reset_all_changes", "-", ToString(DirtyDepth(doc)))
    /\ UNCHANGED <<schemaVars, modelVars, classVars>>

vars == <<doc, baseline, lastop, sch, inst, now, passes, out, state, saved, trace, heap,
          handler_dict, scopes, methods, builders>>

\* item assignments, deletions and resets only
NextTracker == SetItem \/ DelItem \/ Update \/ ResetChanges

SpecTracker == InitDocument /\ [][NextTracker]_vars

\* every mutation and reset of a Document
NextDocument ==
    \/ SetItem
    \/ DelItem
    \/ Update
    \/ SetDefault
    \/ Populate
    \/ ResetChanges
    \/ ResetAllChanges

SpecDocument == InitDocument /\ [][NextDocument]_vars

----------------------------------------------------------------------------
(* A Document holding Documents and DocumentLists, mutated at every depth *)

NestedSeed ==
    PyDict(("a" :> PyInt(1))
           @@ ("engine" :> PyDict("a" :> PyInt(1)))
           @@ ("wheels" :> PyList(<<PyDict("a" :> PyInt(1)),
                                    PyList(<<PyDict("a" :> PyInt(1))>>)>>)))

\* where the Documents of NestedSeed are: doc, doc['engine'], doc['wheels'][0]
\* and doc['wheels'][1][0]
NestedPaths == {<<>>, <<"engine">>, <<"wheels", 1>>, <<"wheels", 2, 1>>}

RECURSIVE MutateAt(_, _, _, _, _)

\* v[p1][p2]...[key] = value, or del v[p1][p2]...[key]
MutateAt(v, path, op, key, value) ==
    IF Len(path) = 0
    THEN IF op = "set" THEN setitem(v, key, value) ELSE delitem(v, key)
    ELSE [v EXCEPT !.items[Head(path)] = MutateAt(@, Tail(path), op, key, value)]

RECURSIVE At(_, _)
At(v, path) == IF Len(path) = 0 THEN v ELSE At(v.items[Head(path)], Tail(path))

InitNested ==
    /\ doc = Document(NestedSeed)
    /\ baseline = doc.items
    /\ lastop = Op("init", "-", "-")
    /\ sch = 1
    /\ inst = None
    /\ now = 0
    /\ passes = 0
    /\ out = NoOutcome
    /\ state = Model_NEW
    /\ saved = None
    /\ trace = <<>>
    /\ heap = <<>>
    /\ ClassesAtImport

NestedSetItem ==
    \E path \in NestedPaths, v \in {PyInt(1), PyInt(2)} :
        /\ doc' = MutateAt(doc, path, "set", "a", v)
        /\ lastop' = Op("nested_setitem", "a", "-")
        /\ UNCHANGED <<baseline, schemaVars, modelVars, classVars>>

NestedDelItem ==
    \E path \in NestedPaths :
        /\ "a" \in DOMAIN At(doc, path).items
        /\ doc' = MutateAt(doc, path, "del", "a", None)
        /\ lastop' = Op("nested_delitem", "a", "-")
        /\ UNCHANGED <<baseline, schemaVars, modelVars, classVars>>

NextNested == NestedSetItem \/ NestedDelItem \/ ResetChanges \/ ResetAllChanges

SpecNested == InitNested /\ [][NextNested]_vars

----------------------------------------------------------------------------
(* Schema.validate and Schema.apply_defaults applied to instances *)

wheel_schema ==
    Schema(("position" :> FieldSpec({"type", "required"}, Type("str"), TRUE, None, <<>>))
           @@ ("size" :> FieldSpec({"type", "default"}, Type("int"), FALSE,
                                   Literal(PyInt(1)), <<>>)),
           TRUE)

engine_schema(default) ==
    Schema("size" :> FieldSpec({"type", "required", "default", "validates"}, Type("int"),
                               TRUE, default, <<gte(2)>>),
           TRUE)

car_schema(strict, default) ==
    Schema(("wheels" :> ListSpec(<<wheel_schema>>))
           @@ ("engine" :> FieldSpec({"type", "required"}, engine_schema(default), TRUE,
                                     None, <<>>))
           @@ ("doors" :> FieldSpec({"type", "required", "default"}, Type("int"), TRUE,
                                    default, <<>>))
           @@ ("b" :> ListSpec(<<Type("int")>>)),
           strict)

\* car_schema with a Mixed(int, str) doors field
mixed_schema ==
    [car_schema(TRUE, Literal(PyInt(4))) EXCEPT
        !.doc_spec["doors"] =
            FieldSpec({"type", "required", "default", "validates"},
                      Mixed({"int", "str"}), TRUE, Literal(PyInt(4)), <<gte(4)>>)]

\* a strict car_schema whose nested schemas are not strict
lenient_parts_schema ==
    [car_schema(TRUE, Literal(PyInt(4))) EXCEPT
        !.doc_spec["wheels"].items[1].strict = FALSE,
        !.doc_spec["engine"].type.strict = FALSE]

Schemas ==
    <<car_schema(TRUE, Literal(PyInt(4))),
      car_schema(FALSE, Literal(PyInt(4))),
      car_schema(TRUE, Callable),
      mixed_schema,
      lenient_parts_schema>>

\* sequences of at most n elements of S
SeqsUpTo(S, n) == UNION {[1..m -> S] : m \in 0..n}

Absent == [kind |-> "absent"]

\* the mapping with the fields of f that are not Absent
Mapping(f) == PyDict([k \in {x \in DOMAIN f : f[x] # Absent} |-> f[k]])

WheelItems ==
    {PyDict("position" :> PyStr(1)), PyDict(EmptyMap), PyInt(3)}

WheelsValues ==
    {Absent, None, PyInt(3)} \cup {PyList(w) : w \in SeqsUpTo(WheelItems, MaxLen)}

EngineValues ==
    {Absent, None, PyInt(5), PyDict(EmptyMap), PyDict("size" :> PyInt(1)),
     PyDict("size" :> PyInt(2)), PyDict("size" :> PyStr(1)), PyDict("size" :> None),
     PyDict(("size" :> PyInt(2)) @@ ("a" :> PyInt(1)))}

DoorsValues == {Absent, None, PyInt(4), PyStr(1), PyFloat(3)}

TagsValues == {Absent, PyList(<<PyInt(1), PyStr(1)>>)}

RawInstances ==
    {Mapping(("wheels" :> w) @@ ("engine" :> e) @@ ("doors" :> d) @@ ("a" :> a)
             @@ ("b" :> t)) :
        w \in WheelsValues, e \in EngineValues, d \in DoorsValues,
        a \in {Absent, PyInt(1)}, t \in TagsValues}

\* raw mappings, the Documents made of them, and something that is no mapping
Instances == RawInstances \cup {Document(i) : i \in RawInstances} \cup {PyInt(1)}

Outcome(op, raised, errors) == [op |-> op, raised |-> raised, errors |-> errors]

InitSchema ==
    /\ sch \in DOMAIN Schemas
    /\ inst \in Instances
    /\ now = 7
    /\ passes = 0
    /\ out = NoOutcome
    /\ state = Model_NEW
    /\ saved = None
    /\ trace = <<>>
    /\ heap = <<>>
    /\ ClassesAtImport
    /\ doc = Document(PyDict(EmptyMap))
    /\ baseline = doc.items
    /\ lastop = Op("init", "-", "-")

ApplyDefaults ==
    /\ passes < MaxPasses
    /\ LET r == apply_defaults(Schemas[sch], inst, now)
       IN  /\ inst' = r.inst
           /\ now' = r.clock
           /\ out' = Outcome("apply_defaults", r.raised, EmptyMap)
    /\ passes' = passes + 1
    /\ UNCHANGED <<sch, docVars, modelVars, classVars>>

Validate ==
    /\ LET r == validate(Schemas[sch], inst)
       IN  out' = Outcome("validate", r.raised, r.errors)
    /\ UNCHANGED <<sch, inst, now, passes, docVars, modelVars, classVars>>

NextSchema == ApplyDefaults \/ Validate

SpecSchema == InitSchema /\ [][NextSchema]_vars

----------------------------------------------------------------------------
(* Deep copies of Documents with recorded changes *)

\* the Document of NestedSeed after up to three assignments or deletions of
\* field a or b, each on the Document itself or on one of those nested in it
InitCopy ==
    /\ \E p1 \in NestedPaths, p2 \in NestedPaths, p3 \in NestedPaths :
       \E k1 \in Keys, k2 \in Keys, k3 \in Keys :
       \E v1 \in {None, PyInt(1), PyInt(2)}, v2 \in {None, PyInt(1), PyInt(2)},
          v3 \in {None, PyInt(2)} :
          LET step(d, p, k, v) ==
                  IF v # None THEN MutateAt(d, p, "set", k, v)
                  ELSE IF k \in DOMAIN At(d, p).items
                  THEN MutateAt(d, p, "del", k, None)
                  ELSE d
          IN  doc = step(step(step(Document(NestedSeed), p1, k1, v1), p2, k2, v2),
                         p3, k3, v3)
    /\ baseline = doc.items
    /\ lastop = Op("init", "-", "-")
    /\ sch = 1
    /\ inst = None
    /\ now = 0
    /\ passes = 0
    /\ out = NoOutcome
    /\ state = Model_NEW
    /\ saved = None
    /\ trace = <<>>
    /\ heap = <<>>
    /\ ClassesAtImport

\* inst = copy.deepcopy(doc)
DeepCopy ==
    /\ inst' = deepcopy(doc)
    /\ lastop' = Op("deepcopy", "-", ToString(DirtyDepth(doc)))
    /\ UNCHANGED <<doc, baseline, sch, now, passes, out, modelVars, classVars>>

SpecCopy == InitCopy /\ [][DeepCopy]_vars

----------------------------------------------------------------------------
(* Writes to a Document and to the DocumentList it holds *)

\* a DocumentList holds at most this many elements
ListCap == MaxLen

\* values a caller may write: a scalar, plain mappings and lists with mappings
\* and lists inside, a Document with a change recorded, a DocumentList of it
WrapValues ==
    LET dirty == setitem(Document(PyDict(EmptyMap)), "a", PyInt(1))
    IN  {PyInt(1),
         PyList(<<PyDict("a" :> PyInt(1)), PyInt(1)>>),
         PyDict("a" :> PyList(<<PyDict(EmptyMap)>>)),
         dirty,
         DocumentList(<<dirty>>)}

\* sequences a caller may hand to a slice assignment or to extend
WrapSequences ==
    {<<>>} \cup {<<v>> : v \in WrapValues} \cup {<<v, PyInt(1)>> : v \in WrapValues}
    \cup {<<PyDict("a" :> PyInt(1)), v>> : v \in WrapValues}

\* the last write to doc['wheels']: its name, the position written and the
\* values handed in
ListOp(name, at, values) ==
    [op |-> name, key |-> "wheels", branch |-> "-", at |-> at, values |-> values]

InitList ==
    /\ \E v \in {w \in WrapValues : w.kind \in {"list", "doclist"}} :
          doc = Document(PyDict("wheels" :> v))
    /\ baseline = doc.items
    /\ lastop = Op("init", "-", "-")
    /\ sch = 1
    /\ inst = None
    /\ now = 0
    /\ passes = 0
    /\ out = NoOutcome
    /\ state = Model_NEW
    /\ saved = None
    /\ trace = <<>>
    /\ heap = <<>>
    /\ ClassesAtImport

ListSetItem ==
    \E i \in 0..(Len(doc.items["wheels"].items) - 1), v \in WrapValues :
        /\ doc' = [doc EXCEPT !.items["wheels"] = list_setitem(@, i, v)]
        /\ lastop' = ListOp("list_setitem", i + 1, <<v>>)
        /\ UNCHANGED <<baseline, schemaVars, modelVars, classVars>>

ListSetSlice ==
    \E i \in 0..Len(doc.items["wheels"].items) :
        \E j \in i..Len(doc.items["wheels"].items), sequence \in WrapSequences :
            /\ Len(doc.items["wheels"].items) - (j - i) + Len(sequence) <= ListCap
            /\ doc' = [doc EXCEPT !.items["wheels"] = setslice(@, i, j, sequence)]
            /\ lastop' = ListOp("setslice", i + 1, sequence)
            /\ UNCHANGED <<baseline, schemaVars, modelVars, classVars>>

ListExtend ==
    \E other \in WrapSequences :
            /\ Len(doc.items["wheels"].items) + Len(other) <= ListCap
            /\ doc' = [doc EXCEPT !.items["wheels"] = extend(@, other)]
            /\ lastop' = ListOp("extend", Len(doc.items["wheels"].items) + 1, other)
            /\ UNCHANGED <<baseline, schemaVars, modelVars, classVars>>

ListAppend ==
    \E v \in WrapValues :
        /\ Len(doc.items["wheels"].items) < ListCap
        /\ doc' = [doc EXCEPT !.items["wheels"] = append(@, v)]
        /\ lastop' = ListOp("append", Len(doc.items["wheels"].items) + 1, <<v>>)
        /\ UNCHANGED <<baseline, schemaVars, modelVars, classVars>>

ListInsert ==
    \E i \in 0..ListCap, v \in WrapValues :
        /\ Len(doc.items["wheels"].items) < ListCap
        /\ doc' = [doc EXCEPT !.items["wheels"] = insert(@, i, v)]
        /\ lastop' = ListOp("insert",
                            IF i > Len(doc.items["wheels"].items)
                            THEN Len(doc.items["wheels"].items) + 1 ELSE i + 1,
                            <<v>>)
        /\ UNCHANGED <<baseline, schemaVars, modelVars, classVars>>

\* doc['a'] = v
WrapSetItem ==
    \E v \in WrapValues :
        /\ doc' = setitem(doc, "a", v)
        /\ lastop' = [op |-> "setitem", key |-> "a", branch |-> SetBranch(doc, "a"),
                      at |-> 0, values |-> <<v>>]
        /\ UNCHANGED <<baseline, schemaVars, modelVars, classVars>>

\* doc.setdefault('a', v)
WrapSetDefault ==
    \E v \in WrapValues :
        /\ doc' = setdefault(doc, "a", v)
        /\ lastop' = [op |-> "setdefault", key |-> "a", branch |-> "-", at |-> 0,
                      values |-> IF "a" \in DOMAIN doc.items THEN <<>> ELSE <<v>>]
        /\ UNCHANGED <<baseline, schemaVars, modelVars, classVars>>

\* doc.update({'a': v})
WrapUpdate ==
    \E v \in WrapValues :
        /\ doc' = update(doc, PyDict("a" :> v))
        /\ lastop' = [op |-> "update", key |-> "a", branch |-> SetBranch(doc, "a"),
                      at |-> 0, values |-> <<v>>]
        /\ UNCHANGED <<baseline, schemaVars, modelVars, classVars>>

NextList ==
    \/ ListSetItem \/ ListSetSlice \/ ListExtend \/ ListAppend \/ ListInsert
    \/ WrapSetItem \/ WrapSetDefault \/ WrapUpdate

SpecList == InitList /\ [][NextList]_vars

----------------------------------------------------------------------------
(* Construction of a Document from a seed of plain objects *)

\* heaps of plain mappings and lists, the seed at address 1: a tree, a list
\* held twice, mappings and lists that hold themselves, and keys that are no
\* field names
SeedHeaps ==
    {<<PyDict(("a" :> PyInt(1)) @@ ("engine" :> Ref(2)) @@ ("wheels" :> Ref(3))),
       PyDict("a" :> PyInt(1)),
       PyList(<<Ref(4), PyInt(1)>>),
       PyDict("a" :> PyInt(1))>>,
     <<PyDict(("a" :> Ref(2)) @@ ("b" :> Ref(2))), PyList(<<PyInt(1)>>)>>,
     <<PyDict(("a" :> Ref(1)) @@ ("b" :> PyInt(1)))>>,
     <<PyDict("wheels" :> Ref(2)), PyList(<<PyInt(1), Ref(1)>>)>>,
     <<PyDict("engine" :> Ref(2)), PyDict("a" :> Ref(3)), PyList(<<Ref(2)>>)>>,
     <<PyDict(("contains space" :> PyInt(1)) @@ ("a" :> PyInt(1)))>>,
     <<PyDict("engine" :> Ref(2)), PyDict(("" :> PyInt(1)) @@ ("a" :> PyInt(1)))>>,
     <<PyDict("wheels" :> Ref(2)), PyList(<<Ref(3)>>),
       PyDict(("contains space" :> PyInt(1)) @@ ("a" :> PyInt(1)))>>}

InitSeed ==
    /\ heap \in SeedHeaps
    /\ ClassesAtImport
    /\ doc = None
    /\ baseline = None
    /\ lastop = Op("init", "-", "-")
    /\ sch = 1
    /\ inst = None
    /\ now = 0
    /\ passes = 0
    /\ out = NoOutcome
    /\ state = Model_NEW
    /\ saved = None
    /\ trace = <<>>

\* doc = Document(seed): baseline keeps what the Document holds when constructed
Construct ==
    /\ lastop.op = "init"
    /\ LET r == heap_wrap(heap, Ref(1), 1)
       IN  /\ heap' = IF r.raised THEN heap ELSE r.heap
           /\ doc' = IF r.raised THEN None ELSE r.value
           /\ baseline' = IF r.raised THEN None
                          ELSE Deref(r.heap, r.value, RecursionLimit + 1)
           /\ out' = Outcome("construct", r.raised,
                             IF r.raised
                             THEN "RuntimeError" :> "maximum recursion depth exceeded"
                             ELSE EmptyMap)
    /\ lastop' = Op("construct", "-", "-")
    /\ UNCHANGED <<sch, inst, now, passes, state, saved, trace, classVars>>

\* after the construction the caller changes a plain object of the seed:
\* seed[k] = 2 or del seed[k] on a mapping, append(2) or del seed[0] on a list
MutateSeed ==
    /\ lastop.op # "init"
    /\ \E a \in DOMAIN heap, k \in Keys, shrink \in BOOLEAN :
          /\ heap[a].kind \in {"dict", "list"}
          /\ heap' = [heap EXCEPT ![a].items =
                IF heap[a].kind = "dict"
                THEN IF shrink /\ k \in DOMAIN @ THEN Drop(@, k) ELSE Put(@, k, PyInt(2))
                ELSE IF shrink /\ Len(@) > 0 THEN Tail(@)
                ELSE IF Len(@) < ListCap THEN Append(@, PyInt(2))
                ELSE @]
    /\ lastop' = Op("mutate_seed", "-", "-")
    /\ UNCHANGED <<doc, baseline, schemaVars, state, saved, trace, classVars>>

NextSeed == Construct \/ MutateSeed

SpecSeed == InitSeed /\ [][NextSeed]_vars

----------------------------------------------------------------------------
(* Schema.verify applied to well-formed and malformed schemas *)

\* well-formed and malformed schemas: an embedded collection, a nested
\* document and two simple fields
VerifiedSchemas ==
    LET int_spec == FieldSpec({"type"}, Type("int"), FALSE, None, <<>>)
        no_type == FieldSpec({}, Type("int"), FALSE, None, <<>>)
        bogus_key == FieldSpec({"type", "bogus"}, Type("int"), FALSE, None, <<>>)
        \* what a schema may wrongly give as a validator: a string, and a
        \* function that takes no argument
        NotCallable == [name |-> "str", arg |-> 0]
        bad_validator == [name |-> "bad_validator", arg |-> 0]
        \* field specs with one defect: an unsupported key, a default of the
        \* wrong type, a spec that is no mapping, a required that is no
        \* boolean, no type, a type that is no field type (tuple)
        DefectiveSpecs ==
            {bogus_key,
             FieldSpec({"type"}, Type("tuple"), FALSE, None, <<>>),
             FieldSpec({"type", "default"}, Type("int"), FALSE, Literal(PyStr(1)), <<>>),
             PyInt(45),
             [FieldSpec({"type", "required"}, Type("int"), TRUE, None, <<>>)
                EXCEPT !.required_kind = "int"],
             no_type}
        SimpleSpecs ==
            DefectiveSpecs \cup
            {int_spec,
             FieldSpec({"type", "required", "default", "validates"}, Type("int"), TRUE,
                       Literal(PyInt(4)), <<gte(1)>>),
             FieldSpec({"type", "default"}, Type("str"), FALSE, Callable, <<>>),
             FieldSpec({"type", "validates"}, Type("int"), FALSE, None,
                       <<gte(1), NotCallable>>),
             FieldSpec({"type", "validates"}, Type("int"), FALSE, None, <<bad_validator>>),
             FieldSpec({"type", "default", "bogus"}, Type("int"), FALSE, Literal(PyStr(1)),
                       <<>>),
             FieldSpec({"bogus"}, Type("int"), FALSE, None, <<>>)}
        NestedSchemas ==
            {Schema(("position" :> p) @@ ("size" :> s), TRUE) :
                p \in {int_spec, no_type}, s \in DefectiveSpecs \cup {int_spec}}
    IN  {Schema(Mapping(("wheels" :> w) @@ ("engine" :> e) @@ ("a" :> a)
                        @@ ("b" :> b)).items, TRUE) :
            w \in {Absent, ListSpec(<<>>), ListSpec(<<Type("int")>>),
                   ListSpec(<<Type("int"), Type("str")>>), ListSpec(<<PyInt(45)>>)}
                  \cup {ListSpec(<<n>>) : n \in NestedSchemas},
            e \in {Absent,
                   FieldSpec({"type", "default"}, Schema("size" :> int_spec, TRUE), FALSE,
                             Literal(PyDict(EmptyMap)), <<>>),
                   FieldSpec({"type", "required", "validates"},
                             Schema("size" :> int_spec, TRUE), TRUE, None, <<gte(1)>>)}
                  \cup {FieldSpec({"type", "required"}, n, TRUE, None, <<>>) :
                           n \in NestedSchemas},
            a \in {Absent} \cup SimpleSpecs,
            b \in {Absent, bogus_key}}

InitVerify ==
    /\ sch \in VerifiedSchemas
    /\ inst = None
    /\ now = 0
    /\ passes = 0
    /\ out = NoOutcome
    /\ state = Model_NEW
    /\ saved = None
    /\ trace = <<>>
    /\ heap = <<>>
    /\ ClassesAtImport
    /\ doc = Document(PyDict(EmptyMap))
    /\ baseline = doc.items
    /\ lastop = Op("init", "-", "-")

\* Schema.verify: the error map holds the path and the message of the exception
Verify ==
    /\ LET r == verify(sch)
       IN  out' = Outcome("verify", r.raised,
                          IF r.raised THEN r.path :> r.message ELSE EmptyMap)
    /\ UNCHANGED <<sch, inst, now, passes, docVars, modelVars, classVars>>

SpecVerify == InitVerify /\ [][Verify]_vars

----------------------------------------------------------------------------
(* A Model with its schema: mutations of the model and of its children, save *)

ModelSeeds ==
    {Mapping(("wheels" :> w) @@ ("engine" :> e) @@ ("doors" :> d)) :
        w \in {PyList(<<PyDict("position" :> PyStr(1))>>)},
        e \in {Absent, PyDict(EmptyMap), PyDict("size" :> PyInt(2))},
        d \in {Absent, PyInt(4)}}

\* the item assignments made on the model
ModelAssignments ==
    {<<"doors", PyInt(4)>>, <<"doors", PyInt(5)>>, <<"engine", PyDict("size" :> PyInt(2))>>}

\* the values assigned to the size of the engine
ChildValues == {PyInt(1), PyInt(2)}

InitModel ==
    /\ \E seed \in ModelSeeds : doc = Document(seed)
    /\ baseline = doc.items
    /\ lastop = Op("init", "-", "-")
    /\ state \in {Model_NEW, Model_PERSISTED}
    /\ saved = None
    /\ trace = <<>>
    /\ heap = <<>>
    /\ ClassesAtImport
    /\ sch = 1
    /\ inst = None
    /\ now = 0
    /\ passes = 0
    /\ out = NoOutcome

ModelSetItem ==
    \E kv \in ModelAssignments :
        /\ doc' = setitem(doc, kv[1], kv[2])
        /\ lastop' = Op("setitem", kv[1], SetBranch(doc, kv[1]))
        /\ trace' = <<>>
        /\ UNCHANGED <<baseline, schemaVars, state, saved, heap, classVars>>

ModelDelItem ==
    \E k \in DOMAIN doc.items \cap {"engine", "doors"} :
        /\ doc' = delitem(doc, k)
        /\ lastop' = Op("delitem", k, "-")
        /\ trace' = <<>>
        /\ UNCHANGED <<baseline, schemaVars, state, saved, heap, classVars>>

\* model[k][k2] = v on a child Document
ChildSetItem ==
    \E k \in DOMAIN doc.items, v \in ChildValues :
        /\ IsDocument(doc.items[k])
        /\ doc' = [doc EXCEPT !.items[k] = setitem(@, "size", v)]
        /\ lastop' = Op("child_setitem", k, SetBranch(doc.items[k], "size"))
        /\ trace' = <<>>
        /\ UNCHANGED <<baseline, schemaVars, state, saved, heap, classVars>>

\* del model[k][k2] on a child Document
ChildDelItem ==
    \E k \in DOMAIN doc.items :
        /\ IsDocument(doc.items[k])
        /\ "size" \in DOMAIN doc.items[k].items
        /\ doc' = [doc EXCEPT !.items[k] = delitem(@, "size")]
        /\ lastop' = Op("child_delitem", k, "-")
        /\ trace' = <<>>
        /\ UNCHANGED <<baseline, schemaVars, state, saved, heap, classVars>>

Save ==
    \E fails \in BOOLEAN, assigned \in {PyOid(1)} :
        LET r == save(doc, state, saved, Schemas[sch], now, fails, assigned)
        IN  /\ doc' = r.doc
            /\ state' = r.state
            /\ saved' = r.saved
            /\ trace' = r.trace
            /\ now' = r.clock
            /\ baseline' = IF r.branch = "saved" THEN r.doc.items ELSE baseline
            /\ lastop' = Op("save", "-", r.branch)
            /\ UNCHANGED <<sch, inst, passes, out, heap, classVars>>

NextModel == ModelSetItem \/ ModelDelItem \/ ChildSetItem \/ ChildDelItem \/ Save

SpecModel == InitModel /\ [][NextModel]_vars

\* Model.validate
ModelValidate ==
    LET r == model_validate(doc, Schemas[sch], now)
    IN  /\ doc' = r.doc
        /\ inst' = r.working
        /\ now' = r.clock
        /\ out' = Outcome("model_validate", r.raised, r.errors)
        /\ lastop' = Op("validate", "-", IF r.raised THEN "raised" ELSE "returned")
        /\ trace' = r.trace
        /\ UNCHANGED <<baseline, sch, passes, state, saved, heap, classVars>>

\* mutations of a model, Model.validate, and Schema.validate on the working copy
NextValidate ==
    \/ ModelSetItem
    \/ ModelDelItem
    \/ ChildSetItem
    \/ ChildDelItem
    \/ ModelValidate
    \/ Validate

SpecValidate == InitModel /\ [][NextValidate]_vars

----------------------------------------------------------------------------
(* The lifecycle of a Model: construction, find, save, remove,             *)
(* update_instance, reload                                                  *)

\* a model the caller constructs directly
InitLifecycle == InitModel /\ state = Model_NEW

\* Model(seed)
New ==
    \E seed \in ModelSeeds :
        LET r == Model(seed, Model_NEW)
        IN  /\ doc' = r.doc
            /\ state' = r.state
            /\ trace' = r.trace
            /\ baseline' = r.doc.items
            /\ lastop' = Op("new", "-", "-")
            /\ UNCHANGED <<schemaVars, saved, heap, classVars>>

\* Model.find_one(), Model.find_by_id(id) and Model.find()[0]: with nothing
\* stored, the first returns None and the others raise, and no model is made
FindOne ==
    \E via \in {"find_one", "find_by_id", "cursor"} :
        IF saved = None
        THEN /\ lastop' = Op(via, "-", "none")
             /\ trace' = <<>>
             /\ UNCHANGED <<doc, baseline, state, schemaVars, saved, heap, classVars>>
        ELSE LET r == find_one(saved)
             IN  /\ doc' = r.doc
                 /\ state' = r.state
                 /\ trace' = r.trace
                 /\ baseline' = r.doc.items
                 /\ lastop' = Op(via, "-", "found")
                 /\ UNCHANGED <<schemaVars, saved, heap, classVars>>

Remove ==
    \E fails \in BOOLEAN :
        LET r == remove(doc, state, saved, fails)
        IN  /\ doc' = r.doc
            /\ state' = r.state
            /\ saved' = r.saved
            /\ trace' = r.trace
            /\ lastop' = Op("remove", "-", r.branch)
            /\ UNCHANGED <<baseline, schemaVars, heap, classVars>>

UpdateInstance ==
    \E fails \in BOOLEAN :
        LET r == update_instance(doc, state, saved, "doors" :> PyInt(5), fails)
        IN  /\ doc' = r.doc
            /\ state' = r.state
            /\ saved' = r.saved
            /\ trace' = r.trace
            /\ lastop' = Op("update_instance", "-", r.branch)
            /\ UNCHANGED <<baseline, schemaVars, heap, classVars>>

Reload ==
    LET r == reload(doc, state, saved)
    IN  /\ doc' = r.doc
        /\ state' = r.state
        /\ saved' = r.saved
        /\ trace' = r.trace
        /\ baseline' = r.doc.items
        /\ lastop' = Op("reload", "-", r.branch)
        /\ UNCHANGED <<schemaVars, heap, classVars>>

NextLifecycle ==
    \/ New
    \/ FindOne
    \/ Save
    \/ Remove
    \/ UpdateInstance
    \/ Reload
    \/ ModelDelItem

SpecLifecycle == InitLifecycle /\ [][NextLifecycle]_vars

----------------------------------------------------------------------------
(* The handler registrar of a model class: register, deregister, apply *)

Events == {"will_save", "did_save"}

Handlers == {"f", "g", "h"}

\* the documents and the extra arguments handed to apply
EventDocuments == {Document(PyDict(EmptyMap)), Document(PyDict("a" :> PyInt(1)))}
EventArgs == {<<>>, <<PyInt(1)>>}

\* an operation on the registrar and its arguments
EventOp(name, event, fn, document, args) ==
    [op |-> name, key |-> event, branch |-> fn, document |-> document, args |-> args]

InitEvents ==
    /\ InitDocument
    /\ doc = Document(PyDict(EmptyMap))

\* Model.on(event, fn)
Register ==
    \E event \in Events, fn \in Handlers :
        /\ handler_dict' = register(handler_dict, event, fn)
        /\ lastop' = EventOp("register", event, fn, None, <<>>)
        /\ trace' = <<>>
        /\ UNCHANGED <<doc, baseline, schemaVars, state, saved, heap, scopes, methods,
                       builders>>

\* Model.remove_handler(event, fn)
Deregister ==
    \E event \in Events, fn \in Handlers :
        /\ handler_dict' = deregister(handler_dict, event, fn)
        /\ lastop' = EventOp("deregister", event, fn, None, <<>>)
        /\ trace' = <<>>
        /\ UNCHANGED <<doc, baseline, schemaVars, state, saved, heap, scopes, methods,
                       builders>>

\* apply(event, document, *args) with handlers that leave the registrar alone
Apply ==
    \E event \in Events, document \in EventDocuments, args \in EventArgs :
        LET r == apply(handler_dict, event, document, args, Observers(Handlers))
        IN  /\ handler_dict' = r.handler_dict
            /\ trace' = r.calls
            /\ lastop' = EventOp("apply", event, "-", document, args)
            /\ UNCHANGED <<doc, baseline, schemaVars, state, saved, heap, scopes, methods,
                           builders>>

NextEvents == Register \/ Deregister \/ Apply

SpecEvents == InitEvents /\ [][NextEvents]_vars

\* apply(event, document) with handlers that may deregister a handler of the
\* event, themselves included, when they are called
Dispatch ==
    \E event \in Events, does \in [Handlers -> Handlers \cup {"none"}] :
        LET document == Document(PyDict(EmptyMap))
            r == apply(handler_dict, event, document, <<>>, does)
        IN  /\ handler_dict' = r.handler_dict
            /\ trace' = r.calls
            /\ lastop' = EventOp("dispatch", event, "-", document, <<>>)
            /\ UNCHANGED <<doc, baseline, schemaVars, state, saved, heap, scopes, methods,
                           builders>>

NextDispatch == Register \/ Deregister \/ Dispatch

SpecDispatch == InitEvents /\ [][NextDispatch]_vars

----------------------------------------------------------------------------
(* ChangeTracker.update: the tracker of one Document takes the state of the *)
(* tracker of another                                                        *)

\* doc is the Document whose tracker is the receiver, inst the Document whose
\* tracker is `other`; both start clean
InitTrackerUpdate ==
    /\ InitDocument
    /\ doc = Document(PyDict("a" :> PyInt(1)))

\* the values the two Documents are given
TrackedValues == {PyInt(1), PyInt(2)}

\* the Document of the other tracker is constructed
OtherInit ==
    /\ inst = None
    /\ \E S \in SUBSET Keys : inst' = Document(PyDict([k \in S |-> PyInt(1)]))
    /\ lastop' = Op("other_init", "-", "-")
    /\ UNCHANGED <<doc, baseline, sch, now, passes, out, modelVars, classVars>>

\* other[k] = v
OtherSetItem ==
    \E k \in Keys, v \in TrackedValues :
        /\ inst # None
        /\ inst' = setitem(inst, k, v)
        /\ lastop' = Op("other_setitem", k, "-")
        /\ UNCHANGED <<doc, baseline, sch, now, passes, out, modelVars, classVars>>

\* doc[k] = v on the receiver's Document
ReceiverSetItem ==
    \E k \in Keys, v \in TrackedValues :
        /\ doc' = setitem(doc, k, v)
        /\ lastop' = Op("setitem", k, SetBranch(doc, k))
        /\ UNCHANGED <<baseline, schemaVars, modelVars, classVars>>

\* del other[k]
OtherDelItem ==
    \E k \in Keys :
        /\ inst # None
        /\ k \in DOMAIN inst.items
        /\ inst' = delitem(inst, k)
        /\ lastop' = Op("other_delitem", k, "-")
        /\ UNCHANGED <<doc, baseline, sch, now, passes, out, modelVars, classVars>>

\* doc._tracker.update(other._tracker)
TrackerUpdateStep ==
    /\ inst # None
    /\ doc' = TrackerUpdate(doc, inst)
    /\ lastop' = Op("tracker_update", "-", "-")
    /\ UNCHANGED <<baseline, schemaVars, modelVars, classVars>>

NextTrackerUpdate ==
    \/ OtherInit
    \/ OtherSetItem
    \/ OtherDelItem
    \/ ReceiverSetItem
    \/ DelItem
    \/ TrackerUpdateStep

SpecTrackerUpdate == InitTrackerUpdate /\ [][NextTrackerUpdate]_vars

----------------------------------------------------------------------------
(* Mutations of the children of a Document: fields of child Documents and   *)
(* elements of child DocumentLists                                           *)

RECURSIVE PathsTo(_, _)

\* the paths from v to the Documents ("doc") or the DocumentLists ("doclist")
\* at or below it
PathsTo(v, kind) ==
    (IF v.kind = kind THEN {<<>>} ELSE {})
    \cup (IF IsDocument(v) \/ IsDocumentList(v)
          THEN UNION {{<<k>> \o p : p \in PathsTo(v.items[k], kind)} : k \in DOMAIN v.items}
          ELSE {})

RECURSIVE ReplaceAt_propagates(_, _, _)

\* variant: every Document on the way to the child notes the change of the
\* field that leads to it
ReplaceAt_propagates(v, path, new) ==
    IF Len(path) = 0 THEN new
    ELSE LET below == [v EXCEPT !.items[Head(path)] =
                            ReplaceAt_propagates(@, Tail(path), new)]
         IN  IF IsDocument(v) /\ Head(path) \notin DOMAIN v.tracker.previous
             THEN [below EXCEPT !.tracker.previous =
                        Put(@, Head(path), v.items[Head(path)])]
             ELSE below

RECURSIVE ReplaceAt(_, _, _)

\* v after the object at v[p1][p2]... has become `new`: a method of a child
\* reads and writes the child and the tracker the child owns, and nothing of
\* the objects that hold it
ReplaceAt(v, path, new) ==
    IF Len(path) = 0 THEN new
    ELSE [v EXCEPT !.items[Head(path)] = ReplaceAt(@, Tail(path), new)]

\* an operation on a child, where the child is, and the tracker branch taken
ChildOp(name, path, branch) == [op |-> name, key |-> path, branch |-> branch]

\* a Document with a child Document, which may hold a Document itself, and a
\* child DocumentList of Documents
ChildSeed ==
    PyDict(("a" :> PyInt(1))
           @@ ("engine" :> PyDict("a" :> PyInt(1)))
           @@ ("wheels" :> PyList(<<PyDict("a" :> PyInt(1))>>)))

\* the values the parent assigns, the values assigned to the fields of
\* children, and the values written to child lists
ParentWrites == {PyInt(2), PyDict("a" :> PyDict("a" :> PyInt(1)))}
ChildWrites == {PyInt(1), PyInt(2)}
ListWrites == {PyInt(2), PyDict("a" :> PyInt(1))}

InitChild ==
    /\ doc = Document(ChildSeed)
    /\ baseline = doc.items
    /\ lastop = Op("init", "-", "-")
    /\ sch = 1
    /\ inst = None
    /\ now = 0
    /\ passes = 0
    /\ out = NoOutcome
    /\ state = Model_NEW
    /\ saved = None
    /\ trace = <<>>
    /\ heap = <<>>
    /\ ClassesAtImport

\* doc[k] = v and del doc[k] on the parent itself
ParentSetItem ==
    \E k \in {"a", "engine"}, v \in ParentWrites :
        /\ doc' = setitem(doc, k, v)
        /\ lastop' = ChildOp("setitem", <<>>, SetBranch(doc, k))
        /\ UNCHANGED <<baseline, schemaVars, modelVars, classVars>>

ParentDelItem ==
    \E k \in {"a", "engine"} \cap DOMAIN doc.items :
        /\ doc' = delitem(doc, k)
        /\ lastop' = ChildOp("delitem", <<>>, DelBranch(doc, k))
        /\ UNCHANGED <<baseline, schemaVars, modelVars, classVars>>

\* child[k] = v on a child Document
ChildAssign ==
    \E path \in PathsTo(doc, "doc") \ {<<>>}, v \in ChildWrites :
        /\ doc' = ReplaceAt(doc, path, setitem(At(doc, path), "a", v))
        /\ lastop' = ChildOp("child_setitem", path, SetBranch(At(doc, path), "a"))
        /\ UNCHANGED <<baseline, schemaVars, modelVars, classVars>>

\* del child[k] on a child Document
ChildDelete ==
    \E path \in PathsTo(doc, "doc") \ {<<>>} :
        \E k \in DOMAIN At(doc, path).items :
            /\ doc' = ReplaceAt(doc, path, delitem(At(doc, path), k))
            /\ lastop' = ChildOp("child_delitem", path, DelBranch(At(doc, path), k))
            /\ UNCHANGED <<baseline, schemaVars, modelVars, classVars>>

\* child.append(v), child.insert(0, v) and child[0] = v on a child DocumentList
ChildListWrite ==
    \E path \in PathsTo(doc, "doclist"), v \in ListWrites,
       name \in {"append", "insert", "list_setitem"} :
        LET l == At(doc, path)
        IN  /\ name = "list_setitem" => Len(l.items) > 0
            /\ name # "list_setitem" => Len(l.items) < ListCap
            /\ doc' = ReplaceAt(doc, path,
                                IF name = "append" THEN append(l, v)
                                ELSE IF name = "insert" THEN insert(l, 0, v)
                                ELSE list_setitem(l, 0, v))
            /\ lastop' = ChildOp(name, path, "-")
            /\ UNCHANGED <<baseline, schemaVars, modelVars, classVars>>

\* child.remove(child[0]) and child.pop() on a child DocumentList
ChildListRemove ==
    \E path \in PathsTo(doc, "doclist"), name \in {"list_remove", "pop"} :
        LET l == At(doc, path)
        IN  /\ Len(l.items) > 0
            /\ doc' = ReplaceAt(doc, path,
                                IF name = "pop" THEN pop(l) ELSE list_remove(l, l.items[1]))
            /\ lastop' = ChildOp(name, path, "-")
            /\ UNCHANGED <<baseline, schemaVars, modelVars, classVars>>

NextChild ==
    \/ ParentSetItem
    \/ ParentDelItem
    \/ ChildAssign
    \/ ChildDelete
    \/ ChildListWrite
    \/ ChildListRemove

SpecChild == InitChild /\ [][NextChild]_vars

----------------------------------------------------------------------------
(* Two model classes with scopes, and the ScopeBuilders made for them *)

ModelClasses == {"CarA", "CarB"}

ScopeNames == {"red", "fast"}

\* the number of builders the caller holds, and the number of scopes chained
\* on one builder
MaxBuilders == 2
MaxChain == 2

\* a call of a scope: on which class or builder, by which name, and the scope
\* function that was applied
ScopeOp(op, model, name, applied) ==
    [op |-> op, key |-> name, branch |-> "-", model |-> model, applied |-> applied]

\* the names of the scope functions of the list fns
NamesOf(fns) == {fns[i].name : i \in DOMAIN fns}

InitScopes == InitEvents

\* @cls.scope on a function written for cls
Scope ==
    \E cls \in ModelClasses, name \in ScopeNames :
        /\ cls \in DOMAIN scopes => ~InSeq(ScopeFn(name, cls), scopes[cls])
        /\ scopes' = scope(scopes, cls, ScopeFn(name, cls))
        /\ lastop' = ScopeOp("scope", cls, name, None)
        /\ UNCHANGED <<doc, baseline, schemaVars, state, saved, trace, heap, handler_dict,
                       methods, builders>>

\* cls.name(): the class method Model.scope attached to the class
Build ==
    \E cls \in DOMAIN scopes, name \in ScopeNames :
        /\ InSeq(ScopeFn(name, cls), scopes[cls])
        /\ Len(builders) < MaxBuilders
        /\ LET r == create_builder(methods, scopes, cls, name)
           IN  /\ methods' = r.methods
               /\ builders' = Append(builders, r.builder)
               /\ lastop' = ScopeOp("build", cls, name, r.applied)
        /\ UNCHANGED <<doc, baseline, schemaVars, state, saved, trace, heap, handler_dict,
                       scopes>>

\* bldr = bldr.name(): name is looked up on the ScopeBuilder class
Chain ==
    \E i \in DOMAIN builders, name \in DOMAIN methods :
        /\ Len(builders[i].query) < MaxChain
        /\ LET r == inner(methods, scopes, builders[i], methods[name])
           IN  /\ methods' = r.methods
               /\ builders' = [builders EXCEPT ![i] = r.builder]
               /\ lastop' = ScopeOp("chain", builders[i].model, name, r.applied)
        /\ UNCHANGED <<doc, baseline, schemaVars, state, saved, trace, heap, handler_dict,
                       scopes>>

NextScopes == Scope \/ Build \/ Chain

SpecScopes == InitScopes /\ [][NextScopes]_vars

----------------------------------------------------------------------------
(* Properties of the change tracker *)

AddedKeys(d) == {d.tracker.added[i] : i \in DOMAIN d.tracker.added}

\* the difference between the baseline content and the current content
DiffAdded == [k \in (DOMAIN doc.items) \ (DOMAIN baseline) |-> doc.items[k]]
DiffDeleted == [k \in (DOMAIN baseline) \ (DOMAIN doc.items) |-> baseline[k]]
DiffKeys ==
    {k \in (DOMAIN baseline) \cap (DOMAIN doc.items) : ~PyEq(doc.items[k], baseline[k])}

\* C1: after any sequence of item assignments and deletions since the baseline,
\* added, deleted, changes and changed are exactly the difference between the
\* baseline content and the current content; an unchanged key is in none of them.
C1_ViewsAreDiff ==
    /\ added(doc) = DiffAdded
    /\ deleted(doc) = DiffDeleted
    /\ changes(doc) = [k \in DiffKeys |-> <<baseline[k], doc.items[k]>>]
    /\ changed(doc) = [k \in DiffKeys |-> doc.items[k]]

C1_Witness ==
    /\ lastop.op = "delitem"
    /\ DOMAIN deleted(doc) # {}
    /\ DOMAIN changes(doc) # {}
    /\ lastop.key \in DOMAIN baseline
    /\ ~PyEq(deleted(doc)[lastop.key], baseline[CHOOSE k \in DOMAIN changes(doc) : TRUE])

\* C2: no field name is in more than one of the tracker's added, previous and
\* deleted, after any sequence of Document mutations and tracker resets.
C2_Disjoint ==
    /\ AddedKeys(doc) \cap DOMAIN doc.tracker.previous = {}
    /\ AddedKeys(doc) \cap DOMAIN doc.tracker.deleted = {}
    /\ DOMAIN doc.tracker.previous \cap DOMAIN doc.tracker.deleted = {}

\* C10: assigning a field that was present at the baseline and has been deleted
\* since: with the baseline value the field is in none of added, changed and
\* deleted; with another value it is in changed, its previous value being the
\* baseline value, and in neither added nor deleted.
C10_ReAdd ==
    [][\A k \in Keys :
        (/\ k \in DOMAIN baseline
         /\ k \in DOMAIN doc.tracker.deleted
         /\ lastop'.op = "setitem"
         /\ lastop'.key = k)
        => /\ k \notin DOMAIN added(doc')
           /\ k \notin DOMAIN deleted(doc')
           /\ IF PyEq(doc'.items[k], baseline[k])
              THEN k \notin DOMAIN changed(doc')
              ELSE /\ k \in DOMAIN changed(doc')
                   /\ changes(doc')[k] = <<baseline[k], doc'.items[k]>>]_vars

C10_Witness ==
    /\ lastop.op = "setitem"
    /\ lastop.branch = "readd"
    /\ lastop.key \in DOMAIN changed(doc)

\* C11: deleting a field that was changed since the last reset records in
\* deleted the value the field had at that reset, not the value it held just
\* before the deletion, and takes the field out of changed and changes.
C11_DeleteChanged ==
    [][\A k \in Keys :
        (/\ k \in DOMAIN baseline
         /\ k \in DOMAIN doc.items
         /\ ~PyEq(doc.items[k], baseline[k])
         /\ lastop'.op = "delitem"
         /\ lastop'.key = k)
        => /\ k \in DOMAIN deleted(doc')
           /\ deleted(doc')[k] = baseline[k]
           /\ deleted(doc')[k] # doc.items[k]
           /\ k \notin DOMAIN changed(doc')
           /\ k \notin DOMAIN changes(doc')]_vars

C11_Witness ==
    /\ lastop.op = "delitem"
    /\ lastop.branch = "changed"
    /\ lastop.key \in DOMAIN baseline
    /\ deleted(doc)[lastop.key] = baseline[lastop.key]

\* C12: a field existing at the baseline and assigned since is reported in
\* changes as (baseline value, current value), however many assignments were
\* made, and leaves changed and changes as soon as it is assigned its baseline
\* value again.
C12_KeepsOriginal ==
    [][\A k \in Keys :
        (/\ k \in DOMAIN baseline
         /\ k \in DOMAIN doc.items
         /\ lastop'.op = "setitem"
         /\ lastop'.key = k)
        => IF PyEq(doc'.items[k], baseline[k])
           THEN /\ k \notin DOMAIN changed(doc')
                /\ k \notin DOMAIN changes(doc')
           ELSE /\ k \in DOMAIN changes(doc')
                /\ changes(doc')[k] = <<baseline[k], doc'.items[k]>>
                /\ changed(doc')[k] = doc'.items[k]]_vars

C12_Witness ==
    /\ lastop.op = "setitem"
    /\ lastop.branch = "rechange"
    /\ lastop.key \in DOMAIN changes(doc)
    /\ changes(doc)[lastop.key][1] = baseline[lastop.key]

\* C13: a field that did not exist at the baseline is, while present, in added
\* with its current value and never in changed, however often it is reassigned;
\* once deleted it is in none of added, changed and deleted.
C13_AdditionStays ==
    \A k \in Keys \ DOMAIN baseline :
        /\ k \notin DOMAIN changed(doc)
        /\ k \notin DOMAIN changes(doc)
        /\ k \notin DOMAIN deleted(doc)
        /\ IF k \in DOMAIN doc.items
           THEN k \in DOMAIN added(doc) /\ added(doc)[k] = doc.items[k]
           ELSE k \notin DOMAIN added(doc)

C13_Witness ==
    /\ lastop.op = "delitem"
    /\ lastop.branch = "added"
    /\ lastop.key \notin DOMAIN baseline
    /\ lastop.key \notin DOMAIN added(doc) \cup DOMAIN changed(doc) \cup DOMAIN deleted(doc)

ViewsEmpty(d) ==
    /\ DOMAIN added(d) = {}
    /\ DOMAIN changed(d) = {}
    /\ DOMAIN changes(d) = {}
    /\ DOMAIN deleted(d) = {}

\* C14: a newly constructed Document (the initial one, and one made by wrapping
\* an assigned mapping) has added, changed, changes and deleted empty, and
\* reset_changes empties the four views and leaves the content as it is.
C14_ResetEmpties ==
    /\ ViewsEmpty(doc)
    /\ [][/\ lastop'.op = "reset_changes" => (ViewsEmpty(doc') /\ doc'.items = doc.items)
          /\ (lastop'.op = "setitem" /\ IsDocument(doc'.items[lastop'.key]))
                => ViewsEmpty(doc'.items[lastop'.key])]_vars

C14_Witness ==
    /\ lastop.op = "reset_changes"
    /\ lastop.branch = "1"
    /\ ViewsEmpty(doc)
    /\ DOMAIN doc.items # {}

RECURSIVE Documents(_)

\* the Documents reachable from v through Documents and DocumentLists
Documents(v) ==
    IF IsDocument(v)
    THEN {v} \cup UNION {Documents(v.items[k]) : k \in DOMAIN v.items}
    ELSE IF IsDocumentList(v)
    THEN UNION {Documents(v.items[i]) : i \in DOMAIN v.items}
    ELSE {}

\* C15: after reset_all_changes every Document reachable through nested
\* Documents and DocumentLists, lists nested in lists included, has empty
\* change tracking, and the content is what it was.
C15_ResetAll ==
    [][lastop'.op = "reset_all_changes"
        => /\ \A d \in Documents(doc') : ViewsEmpty(d) /\ d.tracker = ChangeTracker
           /\ to_dict(doc') = to_dict(doc)
           /\ Cardinality(Documents(doc')) <= Cardinality(Documents(doc))]_vars

C15_Witness ==
    /\ lastop.op = "reset_all_changes"
    /\ lastop.branch = "4"
    /\ to_dict(doc.items["wheels"].items[2].items[1]) = PyDict("a" :> PyInt(2))
    /\ ViewsEmpty(doc.items["wheels"].items[2].items[1])

----------------------------------------------------------------------------
(* Properties of Schema.validate and Schema.apply_defaults *)

\* a dotted path
Dotted(prefix, name) == IF prefix = "" THEN name ELSE prefix \o "." \o name

IsRequired(spec) == "required" \in spec.keys /\ spec.required

RECURSIVE FailingPaths(_, _, _, _), FieldFailures(_, _, _, _)

\* the paths at which an instance fails a schema
FailingPaths(strict, schema, instance, prefix) ==
    IF ~IsDict(instance) THEN {prefix}
    ELSE UNION {FieldFailures(strict, schema.doc_spec[f], Get(instance, f),
                              Dotted(prefix, f)) : f \in DOMAIN schema.doc_spec}
         \cup {Dotted(prefix, f) :
                 f \in {x \in DOMAIN instance.items :
                          strict /\ x \notin DOMAIN schema.doc_spec}}

FieldFailures(strict, spec, value, path) ==
    IF spec.kind = "list"
    THEN IF value = None THEN {}
         ELSE IF ~IsList(value) THEN {path}
         ELSE UNION {IF IsSchema(spec.items[1])
                     THEN FailingPaths(strict, spec.items[1], value.items[j],
                                       Dotted(path, ToString(j - 1)))
                     ELSE IF isinstance(value.items[j], spec.items[1]) THEN {}
                     ELSE {Dotted(path, ToString(j - 1))} : j \in DOMAIN value.items}
    ELSE IF value = None THEN (IF IsRequired(spec) THEN {path} ELSE {})
    ELSE IF IsSchema(spec.type)
    THEN IF IsDict(value) THEN FailingPaths(strict, spec.type, value, path) ELSE {path}
    ELSE IF ~isinstance(value, spec.type) THEN {path}
    ELSE IF /\ "validates" \in spec.keys
            /\ \E i \in DOMAIN spec.validates : RunValidator(spec.validates[i], value) # ""
    THEN {path}
    ELSE {}

\* C3: validate raises exactly when the instance fails somewhere, and the error
\* map it raises with has an entry for every failing path (it does not stop at
\* the first error).
C3_RaisesIffErrors ==
    out.op = "validate" =>
        LET failing == FailingPaths(Schemas[sch].strict, Schemas[sch], inst, "")
        IN  /\ out.raised <=> failing # {}
            /\ out.raised => DOMAIN out.errors = failing

C3_Witness ==
    /\ out.op = "validate"
    /\ out.raised
    /\ {"doors", "engine.size", "wheels.1.position", "b.1"} \subseteq DOMAIN out.errors

RECURSIVE RequiredMissing(_, _, _)

\* the paths of the required fields that are absent from their (sub-)document
RequiredMissing(schema, instance, prefix) ==
    UNION {LET spec == schema.doc_spec[f]
               path == Dotted(prefix, f)
           IN  IF f \notin DOMAIN instance.items
               THEN IF spec.kind = "dict" /\ IsRequired(spec) THEN {path} ELSE {}
               ELSE LET value == instance.items[f]
                    IN  IF spec.kind = "list"
                        THEN IF IsList(value) /\ IsSchema(spec.items[1])
                             THEN UNION {IF IsDict(value.items[j])
                                         THEN RequiredMissing(spec.items[1], value.items[j],
                                                  Dotted(path, ToString(j - 1)))
                                         ELSE {} : j \in DOMAIN value.items}
                             ELSE {}
                        ELSE IF IsSchema(spec.type) /\ IsDict(value)
                        THEN RequiredMissing(spec.type, value, path)
                        ELSE {}
           : f \in DOMAIN schema.doc_spec}

\* C4: every required field that is absent, at the top level, in a nested
\* sub-document or in a list element, is reported at its full dotted path as
\* "<path> is required."; when that is the only defect the map has that one key.
C4_RequiredReported ==
    (out.op = "validate" /\ IsDict(inst)) =>
        \A p \in RequiredMissing(Schemas[sch], inst, "") :
            /\ p \in DOMAIN out.errors
            /\ out.errors[p] = p \o " is required."
            /\ FailingPaths(Schemas[sch].strict, Schemas[sch], inst, "") = {p}
                => DOMAIN out.errors = {p}

C4_Witness ==
    /\ out.op = "validate"
    /\ out.errors = ("wheels.1.position" :> "wheels.1.position is required.")

\* C6: a second apply_defaults pass changes nothing and calls no callable default.
C6_Idempotent ==
    [][(passes >= 1 /\ passes' = passes + 1) => (inst' = inst /\ now' = now)]_vars

C6_Witness ==
    /\ passes = 2
    /\ out.op = "apply_defaults"
    /\ ~out.raised
    /\ Schemas[sch].doc_spec["doors"].default.callable
    /\ IsDict(inst)
    /\ "doors" \in DOMAIN inst.items
    /\ inst.items["doors"] \in {PyInt(7), PyInt(8)}

RECURSIVE OnlyDefaultsAdded(_, _, _)

\* new is old with nothing but absent, declared, defaulted fields added
OnlyDefaultsAdded(schema, old, new) ==
    IF ~IsDict(old) THEN new = old
    ELSE /\ new.kind = old.kind
         /\ DOMAIN old.items \subseteq DOMAIN new.items
         /\ \A f \in (DOMAIN new.items) \ (DOMAIN old.items) :
                /\ f \in DOMAIN schema.doc_spec
                /\ schema.doc_spec[f].kind = "dict"
                /\ "default" \in schema.doc_spec[f].keys
         /\ \A f \in DOMAIN old.items :
                LET o == old.items[f]
                    n == new.items[f]
                    declared == f \in DOMAIN schema.doc_spec
                IN  IF declared /\ schema.doc_spec[f].kind = "dict"
                       /\ IsSchema(schema.doc_spec[f].type) /\ IsDict(o)
                    THEN OnlyDefaultsAdded(schema.doc_spec[f].type, o, n)
                    ELSE IF declared /\ schema.doc_spec[f].kind = "list"
                            /\ IsSchema(schema.doc_spec[f].items[1]) /\ IsList(o)
                    THEN /\ n.kind = o.kind
                         /\ Len(n.items) = Len(o.items)
                         /\ \A j \in DOMAIN o.items :
                                OnlyDefaultsAdded(schema.doc_spec[f].items[1],
                                                  o.items[j], n.items[j])
                    ELSE n = o

\* C7: apply_defaults changes no field that is present, at any depth; it only
\* adds declared fields that were absent and carry a default.
C7_FrameDefaults ==
    [][passes' = passes + 1 => OnlyDefaultsAdded(Schemas[sch], inst, inst')]_vars

C7_Witness ==
    /\ out.op = "apply_defaults"
    /\ IsDocument(inst)
    /\ "a" \in DOMAIN inst.items
    /\ "engine" \in DOMAIN inst.items
    /\ IsDocument(inst.items["engine"])
    /\ InSeq("size", inst.items["engine"].tracker.added)
    /\ "wheels" \in DOMAIN inst.items
    /\ IsList(inst.items["wheels"])
    /\ Len(inst.items["wheels"].items) = 2
    /\ InSeq("size", inst.items["wheels"].items[2].tracker.added)
    /\ "position" \in DOMAIN inst.items["wheels"].items[1].items

\* C8: apply_defaults completes without raising, for every instance.
C8_NeverRaises == out.op = "apply_defaults" => ~out.raised

RECURSIVE RequiredDefaulted(_, _)

\* the paths of the fields declared with required=true and a default
RequiredDefaulted(schema, prefix) ==
    UNION {LET spec == schema.doc_spec[f]
           IN  IF spec.kind # "dict" THEN {}
               ELSE IF IsSchema(spec.type)
               THEN RequiredDefaulted(spec.type, Dotted(prefix, f))
               ELSE IF IsRequired(spec) /\ "default" \in spec.keys
               THEN {Dotted(prefix, f)}
               ELSE {}
           : f \in DOMAIN schema.doc_spec}

\* C9: once apply_defaults has been applied to an instance, validate reports
\* "<field> is required." for no field declared with required=true and a default.
C9_DefaultedNotRequired ==
    (out.op = "validate" /\ passes >= 1) =>
        \A p \in RequiredDefaulted(Schemas[sch], "") :
            ~(p \in DOMAIN out.errors /\ out.errors[p] = p \o " is required.")

RECURSIVE UnexpectedPaths(_, _, _)

\* the paths of the instance fields, at any depth validate descends to, that the
\* schema of their (sub-)document does not declare
UnexpectedPaths(schema, instance, prefix) ==
    IF ~IsDict(instance) THEN {}
    ELSE {Dotted(prefix, f) : f \in (DOMAIN instance.items) \ (DOMAIN schema.doc_spec)}
         \cup UNION {LET spec == schema.doc_spec[f]
                         value == instance.items[f]
                         path == Dotted(prefix, f)
                     IN  IF spec.kind = "list"
                         THEN IF IsList(value) /\ IsSchema(spec.items[1])
                              THEN UNION {UnexpectedPaths(spec.items[1], value.items[j],
                                                          Dotted(path, ToString(j - 1)))
                                          : j \in DOMAIN value.items}
                              ELSE {}
                         ELSE IF IsSchema(spec.type)
                         THEN UnexpectedPaths(spec.type, value, path)
                         ELSE {}
                     : f \in (DOMAIN instance.items) \cap (DOMAIN schema.doc_spec)}

\* C17: when the schema validate is called on is strict, every instance field
\* its schema does not declare has the error "Unexpected document field not
\* present in schema" at its path; when it is not strict, no such field has an
\* entry in the error map.
C17_StrictUnexpected ==
    out.op = "validate" =>
        \A p \in UnexpectedPaths(Schemas[sch], inst, "") :
            IF Schemas[sch].strict
            THEN /\ p \in DOMAIN out.errors
                 /\ out.errors[p] = "Unexpected document field not present in schema"
            ELSE p \notin DOMAIN out.errors

C17_Witness ==
    /\ out.op = "validate"
    /\ Schemas[sch].strict
    /\ {"a", "engine.a"} \subseteq UnexpectedPaths(Schemas[sch], inst, "")
    /\ out.errors["engine.a"] = "Unexpected document field not present in schema"

RECURSIVE TypedValues(_, _, _)

\* the present values validate checks against a declared type that is not a
\* Schema, each with its path and field spec
TypedValues(schema, instance, prefix) ==
    IF ~IsDict(instance) THEN {}
    ELSE UNION {LET spec == schema.doc_spec[f]
                    value == Get(instance, f)
                    path == Dotted(prefix, f)
                IN  IF spec.kind = "list"
                    THEN IF IsList(value) /\ IsSchema(spec.items[1])
                         THEN UNION {TypedValues(spec.items[1], value.items[j],
                                                 Dotted(path, ToString(j - 1)))
                                     : j \in DOMAIN value.items}
                         ELSE {}
                    ELSE IF value = None THEN {}
                    ELSE IF IsSchema(spec.type)
                    THEN TypedValues(spec.type, value, path)
                    ELSE {[path |-> path, spec |-> spec, value |-> value]}
                : f \in DOMAIN schema.doc_spec}

ValidatorMessages(spec, value) ==
    IF "validates" \in spec.keys
    THEN {RunValidator(spec.validates[i], value) : i \in DOMAIN spec.validates} \ {""}
    ELSE {}

\* C18: a present value that is not an instance of the declared type (of no
\* enclosed type, for a Mixed type) has the type-mismatch error at its path, not
\* a validator's message; a value of the declared type has no type-mismatch
\* error, and an error at its path exactly when one of its validators fails.
C18_TypeThenValidators ==
    out.op = "validate" =>
        \A tv \in TypedValues(Schemas[sch], inst, "") :
            IF ~isinstance(tv.value, tv.spec.type)
            THEN /\ tv.path \in DOMAIN out.errors
                 /\ out.errors[tv.path] = "Field should be of type " \o TypeRepr(tv.spec.type)
            ELSE IF ValidatorMessages(tv.spec, tv.value) = {}
            THEN tv.path \notin DOMAIN out.errors
            ELSE /\ tv.path \in DOMAIN out.errors
                 /\ out.errors[tv.path] \in ValidatorMessages(tv.spec, tv.value)

C18_Witness ==
    /\ out.op = "validate"
    /\ Schemas[sch].doc_spec["doors"].type.name = "Mixed"
    /\ IsDict(inst)
    /\ Get(inst, "doors") = PyFloat(3)
    /\ out.errors["doors"] = "Field should be of type <class 'mongothon.schema.Mixed'>"
    /\ Get(inst, "engine") = PyDict("size" :> PyInt(1))
    /\ out.errors["engine.size"] = "1 is less than the minimum value of 2"

----------------------------------------------------------------------------
(* Properties of Schema.verify *)

\* the keys a spec may have: those of a nested-Schema spec, those of a simple one
AllowedKeys(spec) ==
    IF "type" \in spec.keys /\ IsSchema(spec.type) THEN {"type", "required"}
    ELSE {"type", "required", "validates", "default"}

\* the types a field may declare besides a nested Schema and a Mixed type
RecognisedTypes == {"int", "str", "float", "ObjectId", "bool", "datetime", "long"}

\* the mapping spec declares no type, or one that is neither a recognised type,
\* nor a nested Schema, nor a Mixed type
BadType(spec) ==
    /\ spec.kind = "dict"
    /\ \/ "type" \notin spec.keys
       \/ /\ ~IsSchema(spec.type)
          /\ spec.type.kind = "type"
          /\ spec.type.name \notin RecognisedTypes \cup {"Mixed"}

\* the collection spec has not exactly one element, or its sole element is
\* neither a type nor a Schema
BadList(spec) ==
    /\ spec.kind = "list"
    /\ \/ Len(spec.items) # 1
       \/ spec.items[1].kind \notin {"type", "schema"}

\* the field spec is malformed in itself
Malformed(spec) ==
    IF spec.kind = "list" THEN BadList(spec)
    ELSE IF spec.kind # "dict" THEN TRUE
    ELSE \/ "required" \in spec.keys /\ spec.required_kind # "bool"
         \/ BadType(spec)
         \/ ~(spec.keys \subseteq AllowedKeys(spec))
         \/ /\ ~IsSchema(spec.type)
            /\ "validates" \in spec.keys
            /\ \E i \in DOMAIN spec.validates : spec.validates[i].name # "gte"
         \/ /\ ~IsSchema(spec.type)
            /\ "default" \in spec.keys
            /\ ~spec.default.callable
            /\ ~isinstance(spec.default.value, spec.type)

Position(field) == CHOOSE i \in DOMAIN KeySeq : KeySeq[i] = field

RECURSIVE Problems(_, _, _)

\* the malformed fields of a schema and of the schemas nested in it: the dotted
\* path of each, its place in the order of iteration, and whether its spec has
\* a key it may not have, a missing or unrecognised type, a collection
\* declaration that is not one type or one Schema
Problems(schema, prefix, pos) ==
    UNION {LET spec == schema.doc_spec[f]
               path == Dotted(prefix, f)
               here == Append(pos, Position(f))
               nested == IF spec.kind = "list"
                         THEN IF Len(spec.items) >= 1 /\ IsSchema(spec.items[1])
                              THEN Problems(spec.items[1], path, here)
                              ELSE {}
                         ELSE IF spec.kind = "dict" /\ "type" \in spec.keys
                                 /\ IsSchema(spec.type)
                         THEN Problems(spec.type, path, here)
                         ELSE {}
               badkeys == spec.kind = "dict" /\ ~(spec.keys \subseteq AllowedKeys(spec))
           IN  (IF Malformed(spec)
                THEN {[path |-> path, pos |-> here, badkeys |-> badkeys,
                       badtype |-> BadType(spec), badlist |-> BadList(spec)]}
                ELSE {}) \cup nested
           : f \in DOMAIN schema.doc_spec}

RECURSIVE Before(_, _)

\* p is met before q when the fields are walked depth-first
Before(p, q) ==
    IF Len(q) = 0 THEN FALSE
    ELSE IF Len(p) = 0 THEN TRUE
    ELSE \/ Head(p) < Head(q)
         \/ Head(p) = Head(q) /\ Before(Tail(p), Tail(q))

\* C19: verify raises exactly when the schema or a schema nested in it (as
\* {type: Schema} or as [Schema]) has a malformed field, and the exception
\* carries the full dotted path of the first malformed field met.
C19_FirstProblemPath ==
    out.op = "verify" =>
        LET P == Problems(sch, "", <<>>)
        IN  /\ out.raised <=> P # {}
            /\ out.raised =>
                  \E p \in P : /\ DOMAIN out.errors = {p.path}
                               /\ \A q \in P : ~Before(q.pos, p.pos)

\* C20: a schema with a simple field spec that has a key outside type, required,
\* validates, default, or a nested-Schema field spec that has a key outside
\* type, required, is rejected; the exception carries the path of that field
\* whatever the other, well-formed, fields of the schema are.
C20_UnsupportedKeys ==
    out.op = "verify" =>
        \A p \in {q \in Problems(sch, "", <<>>) : q.badkeys} :
            /\ out.raised
            /\ Problems(sch, "", <<>>) = {p} => DOMAIN out.errors = {p.path}

C20_Witness ==
    /\ out.op = "verify"
    /\ DOMAIN out.errors = {"engine"}
    /\ "default" \in sch.doc_spec["engine"].keys
    /\ DOMAIN sch.doc_spec = {"_id", "wheels", "engine", "a"}
    /\ Cardinality(Problems(sch, "", <<>>)) = 1

\* C21: a schema with a mapping field spec that declares no type, or a type
\* that is neither a recognised type, nor a nested Schema, nor a Mixed type, is
\* rejected, with the path of that field when it is the only malformed one; a
\* schema whose fields all declare recognised types and are otherwise
\* well-formed is accepted.
C21_TypeRecognised ==
    out.op = "verify" =>
        LET P == Problems(sch, "", <<>>)
        IN  /\ \A p \in {q \in P : q.badtype} :
                  /\ out.raised
                  /\ P = {p} => DOMAIN out.errors = {p.path}
            /\ P = {} => ~out.raised

\* C22: a schema with a collection spec of zero or several elements, or whose
\* sole element is neither a type nor a Schema, is rejected, with the path of
\* that field when it is the only malformed one; a collection spec of one type
\* or one well-formed Schema does not by itself make verify raise.
C22_CollectionSpec ==
    out.op = "verify" =>
        LET P == Problems(sch, "", <<>>)
        IN  /\ \A p \in {q \in P : q.badlist} :
                  /\ out.raised
                  /\ P = {p} => DOMAIN out.errors = {p.path}
            /\ \A f \in DOMAIN sch.doc_spec :
                  (sch.doc_spec[f].kind = "list" /\ out.raised /\ DOMAIN out.errors = {f})
                      => BadList(sch.doc_spec[f])

----------------------------------------------------------------------------
(* Properties of wrapping *)

RECURSIVE Wrapped(_)

\* no plain mapping and no plain list is held at any depth below v
Wrapped(v) ==
    IF IsDocument(v) \/ IsDocumentList(v)
    THEN \A k \in DOMAIN v.items :
            v.items[k].kind \notin {"dict", "list"} /\ Wrapped(v.items[k])
    ELSE TRUE

\* the values now held where the last write put them
Written ==
    IF lastop.op \in {"setitem", "setdefault", "update"}
    THEN IF Len(lastop.values) = 0 THEN <<>> ELSE <<doc.items[lastop.key]>>
    ELSE SubSeq(doc.items["wheels"].items, lastop.at,
                lastop.at + Len(lastop.values) - 1)

\* C23: after construction and any sequence of writes, every mapping held at
\* any depth is a Document and every list a DocumentList; a written Document or
\* DocumentList is held as it was handed in, its recorded changes included, a
\* written scalar is held unchanged, and a written plain mapping or list is held
\* as a Document or DocumentList of equal content.
C23_AlwaysWrapped ==
    /\ Wrapped(doc)
    /\ lastop.op # "init" =>
          /\ Len(Written) = Len(lastop.values)
          /\ \A n \in DOMAIN lastop.values :
                LET v == lastop.values[n]
                IN  /\ v.kind \notin {"dict", "list"} => Written[n] = v
                    /\ v.kind = "dict" => IsDocument(Written[n])
                    /\ v.kind = "list" => IsDocumentList(Written[n])
                    /\ PyEq(Written[n], v)

C23_Witness ==
    /\ lastop.op = "insert"
    /\ lastop.at = 2
    /\ IsDocument(lastop.values[1])
    /\ lastop.values[1].tracker.added = <<"a">>
    /\ Len(doc.items["wheels"].items) = 2
    /\ IsDocumentList(doc.items["wheels"].items[1])
    /\ IsDocument(doc.items["wheels"].items[1].items[1])
    /\ "a" \in DOMAIN doc.items
    /\ IsDocument(doc.items["a"])
    /\ doc.items["a"].tracker = ChangeTracker
    /\ IsDocumentList(doc.items["a"].items["a"])

RECURSIVE Plain(_)

\* v is a scalar, or a plain mapping or list of such values
Plain(v) ==
    IF v.kind \in {"doc", "doclist"} THEN FALSE
    ELSE IF v.kind \in {"dict", "list"}
    THEN \A k \in DOMAIN v.items : Plain(v.items[k])
    ELSE TRUE

\* C24: to_dict() of a Document has plain mappings, plain lists and scalars only,
\* at every depth, and equals the Document; wrapped again it is a Document that
\* equals the original and holds no plain mapping or list.
C24_ToDictPlain ==
    /\ Plain(to_dict(doc))
    /\ PyEq(to_dict(doc), doc)
    /\ IsDocument(wrap(unwrap(doc)))
    /\ Wrapped(wrap(unwrap(doc)))
    /\ PyEq(wrap(unwrap(doc)), doc)

C24_Witness ==
    /\ Len(doc.items["wheels"].items) = 2
    /\ IsDocumentList(doc.items["wheels"].items[2])
    /\ IsDocument(doc.items["wheels"].items[2].items[1])
    /\ to_dict(doc).items["wheels"].items[2] = PyList(<<PyDict("a" :> PyInt(1))>>)
    /\ "a" \in DOMAIN doc.items
    /\ IsDocument(doc.items["a"])
    /\ to_dict(doc).items["a"] = PyDict("a" :> PyList(<<PyDict(EmptyMap)>>))

----------------------------------------------------------------------------
(* Properties of Model.save *)

\* C5: a save that fails, in schema validation or in collection.save, leaves the
\* model as it was: content (no default applied), change tracking at every depth
\* and lifecycle state.
C5_FailedSaveLeavesModel ==
    [][(lastop'.op = "save" /\ lastop'.branch \in {"validation_error", "collection_error"})
        => (doc' = doc /\ state' = state)]_vars

C5_Witness ==
    /\ lastop.op = "save"
    /\ lastop.branch = "collection_error"
    /\ state = Model_NEW
    /\ "doors" \notin DOMAIN doc.items
    /\ DOMAIN deleted(doc) = {"doors"}
    /\ "engine" \in DOMAIN doc.items
    /\ IsDocument(doc.items["engine"])
    /\ DOMAIN added(doc.items["engine"]) = {"size"}

\* C16: Schema.validate leaves the instance it checks unchanged, whether it
\* returns or raises; Model.validate leaves the content of the model (no default
\* becomes visible on it), its change tracking and its state unchanged.
C16_ValidateReadOnly ==
    [][/\ out'.op = "validate" => inst' = inst
       /\ lastop'.op = "validate" => (doc' = doc /\ state' = state)]_vars

C16_Witness ==
    /\ lastop.op = "validate"
    /\ lastop.branch = "returned"
    /\ out.op = "validate"
    /\ ~out.raised
    /\ "doors" \notin DOMAIN doc.items
    /\ "doors" \in DOMAIN deleted(doc)
    /\ "doors" \in DOMAIN inst.items
    /\ "size" \notin DOMAIN doc.items["engine"].items
    /\ "size" \in DOMAIN inst.items["engine"].items

\* C28: after a save that completes, the content of the model is that of the
\* working copy handed to collection.save (the _id the driver gave it
\* included), the model is PERSISTED, and the model and every Document nested in
\* it have empty added, changed, changes and deleted.
C28_SaveRepopulates ==
    (lastop.op = "save" /\ lastop.branch = "saved") =>
        /\ to_dict(doc) = saved
        /\ state = Model_PERSISTED
        /\ \A d \in Documents(doc) : ViewsEmpty(d)

C28_Witness ==
    /\ lastop.op = "save"
    /\ lastop.branch = "saved"
    /\ "_id" \in DOMAIN doc.items
    /\ "doors" \in DOMAIN doc.items
    /\ IsDocument(doc.items["engine"])
    /\ "size" \in DOMAIN doc.items["engine"].items
    /\ Len(doc.items["wheels"].items) = 1

----------------------------------------------------------------------------
(* Properties of Document.__deepcopy__ *)

\* C29: the deep copy of a Document equals it, and on the copy and on every
\* Document nested in it added, changed, changes and deleted are those of the
\* original.
C29_CloneKeepsChanges ==
    lastop.op = "deepcopy" =>
        /\ IsDocument(inst)
        /\ PyEq(inst, doc)
        /\ \A p \in NestedPaths :
              /\ IsDocument(At(inst, p))
              /\ added(At(inst, p)) = added(At(doc, p))
              /\ changed(At(inst, p)) = changed(At(doc, p))
              /\ changes(At(inst, p)) = changes(At(doc, p))
              /\ deleted(At(inst, p)) = deleted(At(doc, p))

C29_Witness ==
    /\ lastop.op = "deepcopy"
    /\ DOMAIN changes(inst) = {"a"}
    /\ DOMAIN deleted(At(inst, <<"wheels", 2, 1>>)) = {"a"}
    /\ DOMAIN added(At(inst, <<"engine">>)) = {"b"}
    /\ ViewsEmpty(At(inst, <<"wheels", 1>>))

----------------------------------------------------------------------------
(* Properties of the order of Model.save *)

\* the steps of a save, in the order Model.save and Model._do_validate make them
SaveOrder ==
    <<"will_validate", "schema.validate", "did_validate", "will_save",
      "collection.save", "did_save", "populate">>

\* C30: the handlers and steps of a save run in the order will_validate, schema
\* validation, did_validate, will_save, collection.save, did_save, repopulation,
\* all of them when the save completes; each handler is given the working copy
\* (the deep copy of the model with the defaults applied, after the write with
\* the stored content); when the validation raises no will_save handler runs,
\* collection.save is not called and nothing is stored.
C30_SaveOrder ==
    [][lastop'.op = "save" =>
        LET Listed(c) == c.name \in {SaveOrder[i] : i \in DOMAIN SaveOrder}
            calls == SelectSeq(trace', Listed)
            w == create_working(doc, Schemas[sch], now)
        IN  /\ Len(calls) <= Len(SaveOrder)
            /\ \A i \in DOMAIN calls : calls[i].name = SaveOrder[i]
            /\ lastop'.branch = "saved" => Len(calls) = Len(SaveOrder)
            /\ \A i \in DOMAIN calls :
                  /\ calls[i].name \in {"will_validate", "did_validate", "will_save"}
                        => calls[i].document = w.inst
                  /\ calls[i].name = "did_save"
                        => /\ to_dict(calls[i].document) = saved'
                           /\ calls[i].document.tracker
                                = collection_save(w.inst, PyOid(1)).tracker
            /\ lastop'.branch = "validation_error" =>
                  /\ Len(calls) = 2
                  /\ saved' = saved
                  /\ state' = state]_vars

C30_Witness ==
    /\ lastop.op = "save"
    /\ lastop.branch = "validation_error"
    /\ Len(trace) = 3
    /\ trace[3].name = "schema.validate"
    /\ "doors" \in DOMAIN trace[3].document.items
    /\ "doors" \notin DOMAIN doc.items
    /\ saved # None

----------------------------------------------------------------------------
(* Properties of the construction from a seed *)

\* C25: once a Document is constructed from a seed of plain mappings and lists,
\* a change of the seed, or of a mapping or list nested in it, leaves what the
\* Document holds at every depth, and the changes it records, as they were.
C25_SeedCopied ==
    doc # None => Deref(heap, doc, RecursionLimit + 1) = baseline

C25_Witness ==
    /\ doc # None
    /\ Len(heap) = 8
    /\ "a" \in DOMAIN heap[1].items
    /\ heap[1].items["a"] = PyInt(2)
    /\ "a" \notin DOMAIN heap[2].items
    /\ heap[3].items = <<PyInt(1), PyInt(2)>>
    /\ baseline.items["wheels"].items[1].items["a"] = PyInt(1)
    /\ "a" \in DOMAIN heap[4].items
    /\ heap[4].items["a"] = PyInt(2)

\* the addresses of the objects held, at any depth, in the object at address a
Held(h, a) ==
    LET succ(x) == {b \in DOMAIN h : \E k \in DOMAIN h[x].items : h[x].items[k] = Ref(b)}
        RECURSIVE closure(_, _)
        closure(S, n) ==
            IF n = 0 THEN S ELSE closure(S \cup UNION {succ(x) : x \in S}, n - 1)
    IN  closure(succ(a), Len(h))

\* the seed, or a mapping or list held in it, holds itself
Circular(h) == \E a \in Held(h, 1) \cup {1} : a \in Held(h, a)

\* C26: the construction of a Document from a seed that holds itself, directly
\* or through nested mappings or lists, raises a format error; it does not run
\* until the interpreter stops it for the depth of its recursion.
C26_CircularSeedRejected ==
    [][(lastop'.op = "construct" /\ Circular(heap)) =>
          (out'.raised /\ "RuntimeError" \notin DOMAIN out'.errors)]_vars

\* the keys that are no field names: they do not match
\* ^[$A-Za-z_][0-9A-Za-z_$]*$
InvalidKeys == {"contains space", ""}

\* C27: the construction of a Document from a seed raises when a mapping of the
\* seed, at any depth, has a key that is no field name, and succeeds when every
\* key is a field name (and the seed does not hold itself).
C27_InvalidKeyRejected ==
    [][lastop'.op = "construct" =>
          LET invalid == \E a \in Held(heap, 1) \cup {1} :
                            /\ heap[a].kind = "dict"
                            /\ DOMAIN heap[a].items \cap InvalidKeys # {}
          IN  /\ invalid => out'.raised
              /\ (~invalid /\ ~Circular(heap)) => ~out'.raised]_vars
----------------------------------------------------------------------------
(* Properties of the lifecycle of a Model *)

\* the number of lifecycle predicates that are true of the state st
TruePredicates(st) ==
    Cardinality({p \in {"new", "persisted", "deleted"} :
                    \/ p = "new" /\ is_new(st)
                    \/ p = "persisted" /\ is_persisted(st)
                    \/ p = "deleted" /\ is_deleted(st)})

\* C31: exactly one of is_new(), is_persisted() and is_deleted() is true of a
\* model at any time; a model the caller constructs is NEW, a model that
\* find_one, find_by_id or a find cursor returns is PERSISTED, a save that
\* completes leaves the model PERSISTED, a remove that completes leaves it
\* DELETED, and update_instance and reload leave the state as it was.
C31_Lifecycle ==
    [][/\ TruePredicates(state) = 1
       /\ TruePredicates(state') = 1
       /\ lastop'.op = "new" => is_new(state')
       /\ (lastop'.op \in {"find_one", "find_by_id", "cursor"} /\ lastop'.branch = "found")
            => is_persisted(state')
       /\ (lastop'.op = "save" /\ lastop'.branch = "saved") => is_persisted(state')
       /\ (lastop'.op = "remove" /\ lastop'.branch = "removed") => is_deleted(state')
       /\ lastop'.op \in {"update_instance", "reload"} => state' = state]_vars

\* a model that was saved has been removed
C31_Witness ==
    /\ lastop = Op("remove", "-", "removed")
    /\ is_deleted(state)
    /\ saved = None
    /\ "_id" \in DOMAIN doc.items

----------------------------------------------------------------------------
(* Properties of the handler registrar *)

\* the elements of s other than x, in the order of s
Without(s, x) == SelectSeq(s, LAMBDA y : y # x)

NoDuplicates(s) == \A i, j \in DOMAIN s : s[i] = s[j] => i = j

\* C32: the handlers of every event form a list without duplicates; a
\* registration appends the handler to the list of its event unless it is
\* already there, a deregistration takes it out and keeps the order of the
\* others, and neither touches the list of another event; apply calls the
\* handlers of the event, each once, in the order of the list, with the
\* document and the extra arguments, calls no other handler, and calls nothing
\* when the event has no handler.
C32_HandlersInOrder ==
    [][/\ \A e \in Events : NoDuplicates(handlers(handler_dict', e))
       /\ \A e \in Events :
            LET before == handlers(handler_dict, e)
                after == handlers(handler_dict', e)
            IN  /\ (lastop'.op = "register" /\ lastop'.key = e) =>
                      after = IF InSeq(lastop'.branch, before) THEN before
                              ELSE Append(before, lastop'.branch)
                /\ (lastop'.op = "deregister" /\ lastop'.key = e) =>
                      after = Without(before, lastop'.branch)
                /\ (lastop'.op \in {"register", "deregister"} /\ lastop'.key # e) =>
                      after = before
                /\ (lastop'.op = "apply" /\ lastop'.key = e) =>
                      /\ Len(trace') = Len(before)
                      /\ \A i \in DOMAIN before :
                            trace'[i] = Invocation(before[i], lastop'.document,
                                                   lastop'.args)
                /\ lastop'.op = "apply" => after = before]_vars

\* an event with two handlers is applied while another event has a third
C32_Witness ==
    /\ lastop.op = "apply"
    /\ lastop.key = "did_save"
    /\ lastop.args = <<PyInt(1)>>
    /\ handlers(handler_dict, "did_save") = <<"g", "f">>
    /\ handlers(handler_dict, "will_save") = <<"h">>
    /\ Len(trace) = 2

\* the number of calls of the handler fn in calls
Invoked(calls, fn) == Cardinality({i \in DOMAIN calls : calls[i].name = fn})

\* C38: when handlers deregister handlers of the event while apply is
\* dispatching it, every handler that was registered for the event when apply
\* began and is still registered when it ends is called exactly once during
\* that apply.
C38_DeregisterDuringApply ==
    [][lastop'.op = "dispatch" =>
          \A fn \in Handlers :
              (/\ InSeq(fn, handlers(handler_dict, lastop'.key))
               /\ InSeq(fn, handlers(handler_dict', lastop'.key)))
                  => Invoked(trace', fn) = 1]_vars

----------------------------------------------------------------------------
(* Properties of the ChangeTracker *)

\* C33: ChangeTracker.update(other) leaves the receiver with the added list,
\* the previous map and the deleted map of other and with nothing of what it
\* held before; the state of other and the content of the receiver's Document
\* are as they were.
C33_UpdateReplaces ==
    [][lastop'.op = "tracker_update" =>
          /\ doc'.tracker.added = inst.tracker.added
          /\ doc'.tracker.previous = inst.tracker.previous
          /\ doc'.tracker.deleted = inst.tracker.deleted
          /\ inst' = inst
          /\ doc'.items = doc.items]_vars

\* the receiver had recorded an addition and a deletion, the other a change
C33_Witness ==
    /\ lastop.op = "tracker_update"
    /\ "a" \notin DOMAIN doc.items
    /\ "b" \in DOMAIN doc.items
    /\ doc.tracker.added = <<>>
    /\ doc.tracker.deleted = EmptyMap
    /\ DOMAIN doc.tracker.previous = {"a"}
    /\ doc.tracker = inst.tracker

\* C34: after item assignments, deletions, update calls and resets, every key
\* in the added list or the previous map of the tracker is a key of the
\* document, the added list holds no key twice, and no key of the deleted map
\* is a key of the document; so the added, changed and changes views never
\* look up a missing key.
C34_TrackedKeysPresent ==
    /\ AddedKeys(doc) \subseteq DOMAIN doc.items
    /\ DOMAIN doc.tracker.previous \subseteq DOMAIN doc.items
    /\ \A i, j \in DOMAIN doc.tracker.added :
          doc.tracker.added[i] = doc.tracker.added[j] => i = j
    /\ DOMAIN doc.tracker.deleted \cap DOMAIN doc.items = {}
    /\ DOMAIN added(doc) = AddedKeys(doc)
    /\ DOMAIN changed(doc) = DOMAIN changes(doc)

\* a changed field was deleted while an added one is present
C34_Witness ==
    /\ lastop.op = "delitem"
    /\ lastop.branch = "changed"
    /\ doc.tracker.added # <<>>
    /\ doc.tracker.deleted # EmptyMap

----------------------------------------------------------------------------
(* Properties of the mutation of children *)

\* the operations on children
ChildOps ==
    {"child_setitem", "child_delitem", "append", "insert", "list_setitem", "list_remove",
     "pop"}

\* the Documents that hold, directly or through others, the child at path
Ancestors(v, path) ==
    {p \in PathsTo(v, "doc") :
        /\ Len(p) < Len(path)
        /\ SubSeq(path, 1, Len(p)) = p}

----------------------------------------------------------------------------
(* Properties of Schema.validate: None values and nested strictness *)

RECURSIVE WithoutNone(_, _)

\* the instance without the fields its schema declares whose value is None, at
\* every depth validate descends to
WithoutNone(schema, instance) ==
    IF ~IsDict(instance) THEN instance
    ELSE [instance EXCEPT !.items =
            [k \in {f \in DOMAIN instance.items :
                        ~(f \in DOMAIN schema.doc_spec /\ instance.items[f] = None)} |->
                LET value == instance.items[k]
                IN  IF k \notin DOMAIN schema.doc_spec THEN value
                    ELSE IF schema.doc_spec[k].kind = "list"
                    THEN IF IsList(value) /\ IsSchema(schema.doc_spec[k].items[1])
                         THEN [value EXCEPT !.items =
                                 [j \in DOMAIN value.items |->
                                    WithoutNone(schema.doc_spec[k].items[1], value.items[j])]]
                         ELSE value
                    ELSE IF IsSchema(schema.doc_spec[k].type)
                    THEN WithoutNone(schema.doc_spec[k].type, value)
                    ELSE value]]

\* C36: validate reports for an instance what it reports for the same instance
\* without its declared fields of value None; a declared field that is present
\* with the value None gets "<path> is required." when it is required and no
\* error otherwise, whether it is a typed field, a field with validators, a
\* nested document or a collection.
C36_NoneIsAbsent ==
    (out.op = "validate" /\ IsDict(inst)) =>
        /\ out.errors = validate(Schemas[sch], WithoutNone(Schemas[sch], inst)).errors
        /\ \A f \in DOMAIN inst.items \cap DOMAIN Schemas[sch].doc_spec :
              inst.items[f] = None =>
                  LET spec == Schemas[sch].doc_spec[f]
                  IN  IF spec.kind = "dict" /\ IsRequired(spec)
                      THEN /\ f \in DOMAIN out.errors
                           /\ out.errors[f] = f \o " is required."
                      ELSE f \notin DOMAIN out.errors

\* a required field, a collection and a required field of a nested document
\* are None
C36_Witness ==
    /\ out.op = "validate"
    /\ IsDict(inst)
    /\ {"wheels", "engine", "doors"} \subseteq DOMAIN inst.items
    /\ inst.items["wheels"] = None
    /\ inst.items["doors"] = None
    /\ inst.items["engine"].kind = "dict"
    /\ "size" \in DOMAIN inst.items["engine"].items
    /\ inst.items["engine"].items["size"] = None
    /\ out.errors["doors"] = "doors is required."
    /\ out.errors["engine.size"] = "engine.size is required."
    /\ "wheels" \notin DOMAIN out.errors

RECURSIVE WithStrict(_, _)

\* the schema with the strict flag b on every schema nested in it
WithStrict(schema, b) ==
    [schema EXCEPT !.doc_spec =
        [f \in DOMAIN schema.doc_spec |->
            LET spec == schema.doc_spec[f]
            IN  IF spec.kind = "list"
                THEN IF IsSchema(spec.items[1])
                     THEN [spec EXCEPT !.items[1] =
                              [WithStrict(spec.items[1], b) EXCEPT !.strict = b]]
                     ELSE spec
                ELSE IF IsSchema(spec.type)
                THEN [spec EXCEPT !.type = [WithStrict(spec.type, b) EXCEPT !.strict = b]]
                ELSE spec]]

\* C37: during one validate call the strict flag of the schema validate was
\* called on decides the handling of undeclared fields at every depth: the
\* errors are the same whatever the strict flags of the nested schemas are, and
\* an undeclared field of a nested document or of a list element is reported
\* exactly when the root schema is strict.
C37_RootStrictDecides ==
    out.op = "validate" =>
        /\ out.errors = validate(WithStrict(Schemas[sch], TRUE), inst).errors
        /\ out.errors = validate(WithStrict(Schemas[sch], FALSE), inst).errors
        /\ \A p \in UnexpectedPaths(Schemas[sch], inst, "") :
              p \in DOMAIN out.errors <=> Schemas[sch].strict

\* a strict schema with a lenient engine schema meets an undeclared field of
\* the engine
C37_Witness ==
    /\ out.op = "validate"
    /\ Schemas[sch].strict
    /\ ~Schemas[sch].doc_spec["engine"].type.strict
    /\ "engine.a" \in UnexpectedPaths(Schemas[sch], inst, "")
    /\ out.errors["engine.a"] = "Unexpected document field not present in schema"

----------------------------------------------------------------------------
(* Properties of the query scopes *)

\* the scope function a builder of the class model was given under the name
\* name: the last function of that name in the scope list of the model
GivenScope(model, name) ==
    LET fns == scopes[model]
        last == CHOOSE i \in DOMAIN fns :
                    /\ fns[i].name = name
                    /\ \A j \in DOMAIN fns : fns[j].name = name => j <= i
    IN  fns[last]

----------------------------------------------------------------------------
(* Properties of the events of Model.validate and Model.save *)

\* the events a Model emits
ModelEvents ==
    {"did_init", "did_find", "will_validate", "did_validate", "will_save", "did_save",
     "will_apply_defaults", "did_apply_defaults", "will_update", "did_update",
     "will_remove", "did_remove", "will_reload", "did_reload"}

\* the events emitted during the last operation on the model
Emitted == {trace[i].name : i \in DOMAIN trace} \cap ModelEvents

\* C40: Model.save emits only will_validate, did_validate, will_save and
\* did_save, and Model.validate only will_validate and did_validate: making the
\* working copy calls no did_init and no did_find handler.
C40_NoInitOnWorkingCopy ==
    /\ lastop.op = "save" =>
          Emitted \subseteq {"will_validate", "did_validate", "will_save", "did_save"}
    /\ lastop.op = "validate" => Emitted \subseteq {"will_validate", "did_validate"}


====
